---- MODULE Spec2Model ----
(***************************************************************************)
(* Model of the tool-call orchestration engine of the                      *)
(* autogensocial-orchestrator-agent repository:                            *)
(*   - OrchestratorAgent.run            (src/src/agent/OrchestratorAgent.ts)*)
(*   - BaseAgent.runAgentAutonomously   (src/src/agent/baseAgent.ts)       *)
(*   - orchestrateContent               (src/src/functions/...)            *)
(*   - TraceManager / handleError       (src/src/shared/...)               *)
(*                                                                         *)
(* Spec         one invocation of either polling loop, full tool-call menu *)
(* SpecConc     two concurrent OrchestratorAgent.run invocations           *)
(* SpecLive     one invocation of either loop, every await returning       *)
(* SpecTopic    one OrchestratorAgent.run fetching a plan, asking for copy *)
(* SpecGuard    one OrchestratorAgent.run over calls that fail validation  *)
(* SpecTools    the document tools over the brand and post containers      *)
(* SpecHandler  one invocation of the orchestrateContent HTTP handler      *)
(* SpecTrace    one TraceManager under any sequence of calls               *)
(* SpecExtract  the output extraction of CopywriterAgent.generateCopy      *)
(***************************************************************************)
EXTENDS Integers, Sequences, FiniteSets, TLC

VARIABLES
    scenario,     \* the enumerated inputs of a behaviour: who may run, what the planner may ask
    pc,           \* pc[i]: position of invocation i in its polling loop
    kind,         \* kind[i]: "orch" (OrchestratorAgent.run) or "base" (runAgentAutonomously)
    run,          \* run[i]: the run object last returned by runs.create / runs.get
    toolCalls,    \* toolCalls[i]: the iteration's toolCalls array (after auto-injection)
    cb,           \* cb[i]: the callbacks of Promise.all(toolCalls.map(...)), one per call
    retryCount,   \* retryCount[s]: the guardrail counters of counter store s
    lastBrand,    \* lastBrand[i], lastPostPlan[i]: arguments of the last getBrand/getPostPlan call
    lastPostPlan,
    submitted,    \* submitted[i]: the batch handed to runs.submitToolOutputs in this iteration
    iter,         \* iter[i]: requires_action answers received so far
    nSubmits,     \* nSubmits[i]: submitToolOutputs calls of the current iteration
    nCreated,     \* nCreated[i]: runs.create calls of invocation i
    nFail,        \* nFail[i]: history, validation failures of invocation i per retry key
    fetchedPlan,  \* fetchedPlan[i]: history, the post plan getPostPlan returned last, and when
    nExec,        \* nExec[i]: history, execute invocations per tool call id in this iteration
    hpc,          \* orchestrateContent: position in the handler
    env,          \* orchestrateContent: the request body, the process environment, the store
    trace,        \* orchestrateContent: the TraceManager (events, status, endedAt)
    clock,        \* orchestrateContent: logical time behind new Date()
    response,     \* orchestrateContent: what the invocation produced
    effects,      \* orchestrateContent: collaborator calls performed so far
    step,         \* orchestrateContent: status of the copywriter Step ("none" before it)
    traceCalls,   \* TraceManager: history, the operations called on it so far
    agentResponse,\* generateCopy: the CopywriterAgentResponse it returned
    messages,     \* generateCopy: the messages listed from the thread, in list order
    xpc,          \* generateCopy: position in the extraction of the final message
    output,       \* generateCopy: the candidate taken from the last assistant message
    parsed,       \* generateCopy: the value decoded from output (null before)
    brands,       \* document tools: the brand container, its documents in store order
    posts,        \* document tools: the post container, its documents in store order
    toolCall,     \* document tools: the last call (tool, arguments, what the store did)
    toolOut,      \* document tools: what that call returned or threw
    nCalls        \* document tools: calls made so far

loopVars == <<pc, kind, run, toolCalls, cb, retryCount, lastBrand, lastPostPlan,
              submitted, iter, nSubmits, nCreated, nFail, fetchedPlan, nExec>>
extractVars == <<messages, xpc, output, parsed>>
toolVars == <<brands, posts, toolCall, toolOut, nCalls>>
handlerVars == <<hpc, env, trace, clock, response, effects, step, traceCalls,
                 agentResponse, extractVars, toolVars>>
vars == <<scenario, loopVars, handlerVars>>

(***************************************************************************)
(* Bounds of the model.                                                    *)
(***************************************************************************)
MaxIter == 2      \* requires_action iterations the planner may ask for per run
MaxBatch == 2     \* tool calls per requires_action batch
MaxIterConc == 1  \* requires_action iterations per run in the two-invocation scenario
MaxCalls == 3     \* operations called on one TraceManager
MaxToolCalls == 2 \* calls of the document tools in one behaviour

Inv == {1, 2}     \* invocations of a polling loop on one agent instance

(***************************************************************************)
(* JSON values.  An object is an ordered list of <<field, value>> pairs    *)
(* (JavaScript keeps insertion order); null is a value of its own.         *)
(***************************************************************************)
Absent == "<undefined>"

Obj(fields) == [null |-> FALSE, f |-> fields]
NullValue == [null |-> TRUE, f |-> <<>>]

HasField(o, name) == \E k \in 1..Len(o.f) : o.f[k][1] = name

\* o[name]: the value of the field, undefined when the object lacks it
Get(o, name) ==
    IF HasField(o, name)
    THEN LET k == CHOOSE j \in 1..Len(o.f) : o.f[j][1] = name IN o.f[k][2]
    ELSE Absent

\* o[name] = value: replaces the field in place or appends it
SetField(o, name, value) ==
    IF HasField(o, name)
    THEN Obj([k \in 1..Len(o.f) |-> IF o.f[k][1] = name THEN <<name, value>> ELSE o.f[k]])
    ELSE Obj(Append(o.f, <<name, value>>))

\* JavaScript truthiness of a field value: undefined and "" are falsy
Truthy(v) == v # Absent /\ v # ""

(***************************************************************************)
(* function.arguments of a ToolCall: a string (str) that JSON.parse can    *)
(* decode (ok) or not, or an already structured value.                     *)
(***************************************************************************)
JSONstringify(v) == [str |-> TRUE, ok |-> TRUE, val |-> v]
Structured(v) == [str |-> FALSE, ok |-> TRUE, val |-> v]
Undecodable == [str |-> TRUE, ok |-> FALSE, val |-> NullValue]

\* JSON.parse throws a SyntaxError on text that is not JSON
JSONparseThrows(a) == a.str /\ ~a.ok
JSONparse(a) == a.val

\* typeof args === "string" ? JSON.parse(args) : args
DecodeThrows(a) == a.str /\ JSONparseThrows(a)
Decode(a) == IF a.str THEN JSONparse(a) ELSE a.val

(***************************************************************************)
(* Tool results.  A tool either returns a value or throws; the loops turn  *)
(* a throw into the object { error: message }.                             *)
(***************************************************************************)
NoError == ""

OkResult(v, pcopy) == [error |-> NoError, value |-> v, postCopy |-> pcopy]
\* result = { error: error instanceof Error ? error.message : String(error) }
ErrResult(msg) == [error |-> msg, value |-> Absent, postCopy |-> Absent]
NoResult == [error |-> NoError, value |-> Absent, postCopy |-> Absent]

Returned(v, pcopy) == [threw |-> FALSE, msg |-> NoError, res |-> OkResult(v, pcopy)]
Threw(msg) == [threw |-> TRUE, msg |-> msg, res |-> NoResult]

\* variant: a content-generation tool registered under the name copywriterAgent
agentToolMapWithCopywriter ==
    {"getBrand", "getPostPlan", "createPost", "updatePost", "copywriterAgent"}

\* the registered tools
agentToolMap == {"getBrand", "getPostPlan", "createPost", "updatePost"}

\* a tool map that also registers the tool the auto-inject pass looks up
\* (agentToolMap[copyCall.function.name])
copywriterToolMap == agentToolMap \cup {"copywriterAgent"}

\* getBrandTool.execute: store errors are caught inside, the answer is a record or null
getBrandExecute(params) == {Returned("record", Absent), Returned("null", Absent)}

getPostPlanExecute(params) == {Returned("record", Absent), Returned("null", Absent)}

\* createPost: argument checks, then the store write (which may fail)
createPostExecute(params) ==
    IF params.null
    THEN {Threw("TypeError: Cannot read properties of null")}
    ELSE IF ~Truthy(Get(params, "brandId"))
    THEN {Threw("Missing or invalid required field: brandId")}
    ELSE IF ~Truthy(Get(params, "postCopy"))
    THEN {Threw("Missing or invalid required field: postCopy")}
    ELSE IF Get(params, "postCopy") # "pc:valid"
    THEN {Threw("postCopy.content is required and must be a non-empty string")}
    ELSE {Returned("post", Absent), Threw("Failed to create post document")}

updatePostExecute(params) ==
    IF params.null
    THEN {Threw("TypeError: Cannot read properties of null")}
    ELSE IF ~Truthy(Get(params, "postId"))
    THEN {Threw("Missing or invalid required field: postId")}
    ELSE IF ~Truthy(Get(params, "updateFields"))
    THEN {Threw("Missing or invalid required field: updateFields")}
    ELSE {Returned("post", Absent), Threw("Failed to update post document")}

\* a content-generation tool, were one registered under the name copywriterAgent
copywriterExecute(params) ==
    {Returned("copy", "pc:valid"), Returned("copy", Absent), Threw("generation failed")}

\* toolObj.execute is invoked once toolObj is found in the map
Invoked(map, name) == name \in map

\* toolObj = map[name]; await toolObj.execute(params)
\* (an absent name makes toolObj undefined and the call a TypeError)
Execute(map, name, params) ==
    IF name \notin map THEN {Threw("TypeError: Cannot read properties of undefined")}
    ELSE IF name = "getBrand" THEN getBrandExecute(params)
    ELSE IF name = "getPostPlan" THEN getPostPlanExecute(params)
    ELSE IF name = "createPost" THEN createPostExecute(params)
    ELSE IF name = "updatePost" THEN updatePostExecute(params)
    ELSE copywriterExecute(params)

\* what the try/catch around execute leaves in `result`
CaughtResult(o) == IF o.threw THEN ErrResult(o.msg) ELSE o.res

(***************************************************************************)
(* Tool outputs: { toolCallId, output: JSON text }.  The text is kept as   *)
(* the object it serialises.                                               *)
(***************************************************************************)
MAX_RETRIES == 3

\* JSON.stringify(result)
ResultOutput(id, r) ==
    [toolCallId |-> id, shape |-> "result", result |-> r,
     error |-> NoError, retry |-> 0, retries |-> 0, status |-> ""]
\* JSON.stringify({ error: validationError, retry: retryCount[key] })
RetryOutput(id, e, n) ==
    [toolCallId |-> id, shape |-> "retry", result |-> NoResult,
     error |-> e, retry |-> n, retries |-> 0, status |-> ""]
\* JSON.stringify({ error: validationError, retries: MAX_RETRIES, status: "failed" })
FailedOutput(id, e) ==
    [toolCallId |-> id, shape |-> "failed", result |-> NoResult,
     error |-> e, retry |-> 0, retries |-> MAX_RETRIES, status |-> "failed"]
NoOutput ==
    [toolCallId |-> <<"none", 0>>, shape |-> "none", result |-> NoResult,
     error |-> NoError, retry |-> 0, retries |-> 0, status |-> ""]

(***************************************************************************)
(* Validation and retry guardrail of OrchestratorAgent.run.                *)
(***************************************************************************)
\* validateToolOutput reads params.postCopy: a TypeError when params is null
validateToolOutputThrows(toolName, params) == toolName = "createPost" /\ params.null

validateToolOutput(toolName, params) ==
    IF toolName = "createPost" /\ ~Truthy(Get(params, "postCopy"))
    THEN "Missing required postCopy for createPost."
    ELSE NoError

\* variant: the key is the tool name alone
RetryKeyNameOnly(toolName, params) == <<toolName, <<>> >>

\* key = toolCall.function.name + JSON.stringify(params)
RetryKey(toolName, params) == <<toolName, params.f>>

EmptyCounters == [k \in {} |-> 0]

\* retryCount[key] || 0
Count(rc, key) == IF key \in DOMAIN rc THEN rc[key] ELSE 0

\* variant: retryCount[key] = 0 + 1, the stored count is not read
IncrementFromZero(rc, key) ==
    [k \in DOMAIN rc \cup {key} |-> IF k = key THEN 1 ELSE rc[k]]

\* retryCount[key] = (retryCount[key] || 0) + 1
Increment(rc, key) ==
    [k \in DOMAIN rc \cup {key} |-> IF k = key THEN Count(rc, key) + 1 ELSE rc[k]]

\* variant: retryCount[key] <= MAX_RETRIES
GuardrailOutputLate(id, verr, n) ==
    IF n <= MAX_RETRIES THEN RetryOutput(id, verr, n) ELSE FailedOutput(id, verr)

\* if (retryCount[key] < MAX_RETRIES) retry result else terminal result
GuardrailOutput(id, verr, n) ==
    IF n < MAX_RETRIES THEN RetryOutput(id, verr, n) ELSE FailedOutput(id, verr)

\* variant: the counter is raised before the validation error is looked at
GuardrailCountsAll(rc, id, toolName, params, result) ==
    LET verr == validateToolOutput(toolName, params)
        key == RetryKey(toolName, params)
    IN  IF verr # NoError
        THEN [rc |-> Increment(rc, key),
              out |-> GuardrailOutput(id, verr, Count(Increment(rc, key), key))]
        ELSE [rc |-> Increment(rc, key), out |-> ResultOutput(id, result)]

\* the callback after the try/catch: counters and the returned output
Guardrail(rc, id, toolName, params, result) ==
    LET verr == validateToolOutput(toolName, params)
        key == RetryKey(toolName, params)
    IN  IF verr # NoError
        THEN [rc |-> Increment(rc, key),
              out |-> GuardrailOutput(id, verr, Count(Increment(rc, key), key))]
        ELSE [rc |-> rc, out |-> ResultOutput(id, result)]

\* variant: retryCount kept in a field of the agent instance
CounterStoreShared(i) == 1

\* let retryCount = {} is a local of run: each invocation owns its counters
CounterStore(i) == i

(***************************************************************************)
(* The planning entity: the tool calls it may ask for.                     *)
(***************************************************************************)
ArgsBrand1 == Obj(<< <<"brandId", "b1">> >>)
ArgsBrand2 == Obj(<< <<"brandId", "b2">> >>)
ArgsWithCopy == Obj(<< <<"brandId", "b1">>, <<"postCopy", "pc:valid">> >>)

Shape(name, args) == [name |-> name, args |-> args]

\* every call shape of the model
Catalogue ==
    { Shape("getBrand", Structured(ArgsBrand1)),
      Shape("createPost", JSONstringify(ArgsBrand1)),      \* no postCopy
      Shape("createPost", JSONstringify(ArgsBrand2)),      \* no postCopy, another key
      Shape("createPost", JSONstringify(ArgsWithCopy)),
      Shape("createPost", JSONstringify(NullValue)),       \* the text "null"
      Shape("copywriterAgent", JSONstringify(ArgsBrand1)), \* a name absent from the map
      Shape("copywriterAgent", JSONstringify(NullValue)),  \* the text "null"
      Shape("copywriterAgent", Undecodable),
      Shape("getBrand", Undecodable) }

\* the call shapes of the two-invocation scenario
ConcMenu ==
    { Shape("createPost", JSONstringify(ArgsBrand1)),
      Shape("getBrand", Undecodable) }

\* the call shapes of the topic scenario: a post plan is fetched, content is
\* asked for without a topic, with an empty one, with one of the planner's
ArgsPlan1 == Obj(<< <<"postPlanId", "p1">> >>)
ArgsEmptyTopic == Obj(<< <<"brandId", "b1">>, <<"topic", "">> >>)
ArgsOwnTopic == Obj(<< <<"brandId", "b1">>, <<"topic", "winter">> >>)

TopicMenu ==
    { Shape("getPostPlan", Structured(ArgsPlan1)),
      Shape("copywriterAgent", JSONstringify(ArgsBrand1)),
      Shape("copywriterAgent", JSONstringify(ArgsEmptyTopic)),
      Shape("copywriterAgent", Structured(ArgsOwnTopic)) }

\* the call shapes of the guardrail scenario: a postCopy without content, the
\* same arguments in two field orders, a content-generation call
ArgsEmptyContent == Obj(<< <<"brandId", "b1">>, <<"postCopy", "pc:nocontent">> >>)
ArgsNoteLast == Obj(<< <<"brandId", "b1">>, <<"note", "n1">> >>)
ArgsNoteFirst == Obj(<< <<"note", "n1">>, <<"brandId", "b1">> >>)

GuardMenu ==
    { Shape("createPost", JSONstringify(ArgsEmptyContent)),
      Shape("createPost", JSONstringify(ArgsNoteLast)),
      Shape("createPost", JSONstringify(ArgsNoteFirst)),
      Shape("copywriterAgent", JSONstringify(ArgsBrand1)) }

CallId(k) == <<"call", k>>
InjectedId == <<"autogenerated-createPost", 0>>

\* a batch: the planner gives each of its calls an identifier of its own
Batches(menu) ==
    UNION { { [k \in 1..n |-> [id |-> CallId(k), name |-> c[k].name, args |-> c[k].args]]
              : c \in [1..n -> menu] } : n \in 0..MaxBatch }

RunObject(status, calls, missing) == [status |-> status, calls |-> calls, missing |-> missing]
NoRun == RunObject("none", <<>>, FALSE)

Terminal == {"completed", "failed", "cancelled"}

\* the run objects of each scenario: a status, and with requires_action the
\* pending tool calls (or a requiredAction that lacks them)
QuietAnswers == { RunObject(s, <<>>, FALSE) : s \in {"queued", "in_progress"} \cup Terminal }
ActionAnswers(menu) ==
    { RunObject("requires_action", b, FALSE) : b \in Batches(menu) }
    \cup { RunObject("requires_action", <<>>, TRUE) }
FullActionAnswers == ActionAnswers(Catalogue)
ConcActionAnswers == ActionAnswers(ConcMenu)

\* the batches of the topic scenario
TopicActionAnswers == { RunObject("requires_action", b, FALSE) : b \in Batches(TopicMenu) }

\* the batches of the guardrail scenario
GuardActionAnswers == { RunObject("requires_action", b, FALSE) : b \in Batches(GuardMenu) }

\* what runs.create / runs.get may answer to invocation i
PlannerAnswers(i) ==
    QuietAnswers
    \cup (IF scenario.menu = "full"
          THEN (IF iter[i] < MaxIter THEN FullActionAnswers ELSE {})
          ELSE IF scenario.menu = "topic"
          THEN (IF iter[i] < MaxIter THEN TopicActionAnswers ELSE {})
          ELSE IF scenario.menu = "guard"
          THEN (IF iter[i] < MaxIter THEN GuardActionAnswers ELSE {})
          ELSE (IF iter[i] < MaxIterConc THEN ConcActionAnswers ELSE {}))

\* the tool map of the behaviour
toolMap == IF scenario.tools = "registered" THEN agentToolMap ELSE copywriterToolMap

(***************************************************************************)
(* One requires_action iteration: the callbacks of toolCalls.map(...).     *)
(***************************************************************************)
Callback(st, call, params, threw, result, out) ==
    [st |-> st, id |-> call.id, name |-> call.name, params |-> params,
     threw |-> threw, result |-> result, out |-> out]

Rejected(call) == Callback("rejected", call, NullValue, FALSE, NoResult, NoOutput)
Running(call, params) == Callback("running", call, params, FALSE, NoResult, NoOutput)

\* autoSelectTopic(postPlan): first topic of postPlan.content.topics, else "general"
autoSelectTopic(postPlan) ==
    IF Truthy(Get(postPlan, "content")) THEN Get(postPlan, "content") ELSE "general"

\* OrchestratorAgent.run: a callback up to its await of toolObj.execute
\* (lb, lpp: lastBrand and lastPostPlan as the earlier callbacks left them)
OrchStart(call, lb, lpp) ==
    IF DecodeThrows(call.args)
    THEN [cb |-> Rejected(call), lb |-> lb, lpp |-> lpp]
    ELSE LET params == Decode(call.args)
             lb2 == IF call.name = "getBrand" THEN params ELSE lb
             lpp2 == IF call.name = "getPostPlan" THEN params ELSE lpp
         IN  IF call.name = "copywriterAgent" /\ params.null
             THEN [cb |-> Rejected(call), lb |-> lb2, lpp |-> lpp2]
             ELSE IF call.name = "copywriterAgent" /\ ~Truthy(Get(params, "topic"))
             THEN [cb |-> Running(call, SetField(params, "topic", autoSelectTopic(lpp2))),
                   lb |-> lb2, lpp |-> lpp2]
             ELSE [cb |-> Running(call, params), lb |-> lb2, lpp |-> lpp2]

\* BaseAgent.runAgentAutonomously: a callback up to its await of toolObj.execute
BaseStart(call) ==
    IF DecodeThrows(call.args) THEN Rejected(call) ELSE Running(call, Decode(call.args))

\* toolCalls.map(async ...) starts the callbacks in array order
RECURSIVE OrchFanOut(_, _, _, _)
OrchFanOut(calls, k, lb, lpp) ==
    IF k > Len(calls)
    THEN [cbs |-> <<>>, lb |-> lb, lpp |-> lpp]
    ELSE LET one == OrchStart(calls[k], lb, lpp)
             rest == OrchFanOut(calls, k + 1, one.lb, one.lpp)
         IN  [cbs |-> <<one.cb>> \o rest.cbs, lb |-> rest.lb, lpp |-> rest.lpp]

BaseFanOut(calls) == [k \in 1..Len(calls) |-> BaseStart(calls[k])]

\* the createPost call appended after a copywriterAgent call; JSON.stringify
\* leaves out the fields whose value is undefined
OrDefault(a, b) == IF Truthy(a) THEN a ELSE b

InjectedFields(lb, lpp, params, pcopy) ==
    LET brandId == OrDefault(Get(lb, "brandId"), Get(params, "brandId"))
        postPlanId == OrDefault(Get(lpp, "postPlanId"), Get(params, "postPlanId"))
    IN  (IF brandId # Absent THEN << <<"brandId", brandId>> >> ELSE <<>>)
        \o (IF postPlanId # Absent THEN << <<"postPlanId", postPlanId>> >> ELSE <<>>)
        \o << <<"postCopy", pcopy>> >>

InjectedCall(lb, lpp, params, pcopy) ==
    [id |-> InjectedId, name |-> "createPost",
     args |-> JSONstringify(Obj(InjectedFields(lb, lpp, params, pcopy)))]

HasCopywriterCall(calls) == \E k \in 1..Len(calls) : calls[k].name = "copywriterAgent"
CopyCall(calls) ==
    calls[CHOOSE k \in 1..Len(calls) :
            /\ calls[k].name = "copywriterAgent"
            /\ \A j \in 1..(k - 1) : calls[j].name # "copywriterAgent"]

\* the auto-inject pass: the toolCalls arrays it can produce (one per outcome
\* of executing the copywriterAgent call); it throws when that call's
\* arguments cannot be decoded
AutoInjectThrows(calls) == HasCopywriterCall(calls) /\ DecodeThrows(CopyCall(calls).args)

AutoInject(calls, lb, lpp) ==
    IF ~HasCopywriterCall(calls) THEN {calls}
    ELSE LET params == Decode(CopyCall(calls).args)
         IN  { IF ~o.threw /\ Truthy(o.res.postCopy)
               THEN Append(calls, InjectedCall(lb, lpp, params, o.res.postCopy))
               ELSE calls
               : o \in Execute(toolMap, "copywriterAgent", params) }

\* variant: Promise.allSettled, resolved once every callback has settled
AllSettled(cbs) == \A k \in 1..Len(cbs) : cbs[k].st \in {"fulfilled", "rejected"}

\* await Promise.all(...): resolved once every callback has returned its output
AllFulfilled(cbs) == \A k \in 1..Len(cbs) : cbs[k].st = "fulfilled"
AnyRejected(cbs) == \E k \in 1..Len(cbs) : cbs[k].st = "rejected"

Outputs(cbs) == [k \in 1..Len(cbs) |-> cbs[k].out]

NotSubmitted == [sent |-> FALSE, outputs |-> <<>>]

\* the post plan document of the store; its "content" field stands for the
\* first topic of content.topics
StoredPostPlan == Obj(<< <<"id", "p1">>, <<"content", "launch">> >>)

NoPlanFetched == [doc |-> NullValue, at |-> 0]

\* history of the post plans fetched: what execute returned for a getPostPlan
\* call ({ postPlan: document } or { postPlan: null }), and in which iteration
ObservePlan(h, toolName, o, n) ==
    IF toolName = "getPostPlan" /\ ~o.threw
    THEN [doc |-> IF o.res.value = "record" THEN StoredPostPlan ELSE NullValue, at |-> n]
    ELSE h

(***************************************************************************)
(* The polling loops as state machines.                                    *)
(*   pc: idle -> loop -> dispatching -> submitted -> loop ... -> returned  *)
(*       (thrown: the invocation ended with an exception)                  *)
(***************************************************************************)
LoopInit ==
    /\ pc = [i \in Inv |-> "idle"]
    /\ kind = [i \in Inv |-> "none"]
    /\ run = [i \in Inv |-> NoRun]
    /\ toolCalls = [i \in Inv |-> <<>>]
    /\ cb = [i \in Inv |-> <<>>]
    /\ retryCount = [s \in Inv |-> EmptyCounters]
    /\ lastBrand = [i \in Inv |-> NullValue]
    /\ lastPostPlan = [i \in Inv |-> NullValue]
    /\ submitted = [i \in Inv |-> NotSubmitted]
    /\ iter = [i \in Inv |-> 0]
    /\ nSubmits = [i \in Inv |-> 0]
    /\ nCreated = [i \in Inv |-> 0]
    /\ nFail = [i \in Inv |-> EmptyCounters]
    /\ fetchedPlan = [i \in Inv |-> NoPlanFetched]
    /\ nExec = [i \in Inv |-> EmptyCounters]

CountAnswer(i, r) == IF r.status = "requires_action" THEN iter[i] + 1 ELSE iter[i]

\* OrchestratorAgent.run up to the loop head: runs.create, then the guardrail
\* state (retryCount = {}, lastPostPlan = null, lastBrand = null)
StartOrchRun(i) ==
    /\ i \in scenario.active
    /\ pc[i] = "idle"
    /\ \E r \in PlannerAnswers(i) :
          /\ run' = [run EXCEPT ![i] = r]
          /\ iter' = [iter EXCEPT ![i] = CountAnswer(i, r)]
    /\ kind' = [kind EXCEPT ![i] = "orch"]
    /\ retryCount' = [retryCount EXCEPT ![CounterStore(i)] = EmptyCounters]
    /\ lastBrand' = [lastBrand EXCEPT ![i] = NullValue]
    /\ lastPostPlan' = [lastPostPlan EXCEPT ![i] = NullValue]
    /\ nCreated' = [nCreated EXCEPT ![i] = @ + 1]
    /\ nFail' = [nFail EXCEPT ![i] = EmptyCounters]
    /\ pc' = [pc EXCEPT ![i] = "loop"]
    /\ UNCHANGED <<scenario, fetchedPlan, nExec, toolCalls, cb, submitted, nSubmits, handlerVars>>

\* BaseAgent.runAgentAutonomously up to the loop head: runs.create
StartBaseRun(i) ==
    /\ i \in scenario.active
    /\ pc[i] = "idle"
    /\ \E r \in PlannerAnswers(i) :
          /\ run' = [run EXCEPT ![i] = r]
          /\ iter' = [iter EXCEPT ![i] = CountAnswer(i, r)]
    /\ kind' = [kind EXCEPT ![i] = "base"]
    /\ nCreated' = [nCreated EXCEPT ![i] = @ + 1]
    /\ pc' = [pc EXCEPT ![i] = "loop"]
    /\ UNCHANGED <<scenario, fetchedPlan, nExec, nFail, toolCalls, cb, retryCount, lastBrand, lastPostPlan,
                   submitted, nSubmits, handlerVars>>

\* variant: a loop that ends on completed only
LoopContinuesUntilCompleted(r) == r.status # "completed"

\* variant: a loop that goes on only while the run is queued or in progress
LoopContinuesWhileWaiting(r) == r.status \in {"queued", "in_progress"}

\* while (run.status !== "completed" && run.status !== "failed"
\*        && run.status !== "cancelled")
LoopContinues(r) ==
    r.status # "completed" /\ r.status # "failed" /\ r.status # "cancelled"

AtRequiredAction(i) == pc[i] = "loop" /\ run[i].status = "requires_action"

\* if (!toolCalls) throw new Error("Tool calls not found ...")
ThrowNoToolCalls(i) ==
    /\ AtRequiredAction(i)
    /\ run[i].missing
    /\ pc' = [pc EXCEPT ![i] = "thrown"]
    /\ UNCHANGED <<scenario, fetchedPlan, nExec, nFail, kind, run, toolCalls, cb, retryCount, lastBrand, lastPostPlan,
                   submitted, iter, nSubmits, nCreated, handlerVars>>

\* history of the execute invocations of one iteration, per tool call id
CountExec(h, id, name) ==
    IF Invoked(toolMap, name)
    THEN [x \in DOMAIN h \cup {id} |-> IF x = id THEN Count(h, id) + 1 ELSE h[x]]
    ELSE h

\* the auto-inject pass executes the copywriterAgent call it finds
PreExecuted(calls) ==
    IF HasCopywriterCall(calls)
    THEN CountExec(EmptyCounters, CopyCall(calls).id, CopyCall(calls).name)
    ELSE EmptyCounters

\* OrchestratorAgent.run: auto-inject pass, then Promise.all(toolCalls.map(...))
\* up to the point where every callback awaits its tool
OrchDispatch(i) ==
    /\ AtRequiredAction(i)
    /\ kind[i] = "orch"
    /\ ~run[i].missing
    /\ IF AutoInjectThrows(run[i].calls)
       THEN /\ pc' = [pc EXCEPT ![i] = "thrown"]
            /\ toolCalls' = [toolCalls EXCEPT ![i] = run[i].calls]
            /\ UNCHANGED <<cb, lastBrand, lastPostPlan, nExec>>
       ELSE \E tc \in AutoInject(run[i].calls, lastBrand[i], lastPostPlan[i]) :
              LET fo == OrchFanOut(tc, 1, lastBrand[i], lastPostPlan[i])
              IN  /\ toolCalls' = [toolCalls EXCEPT ![i] = tc]
                  /\ cb' = [cb EXCEPT ![i] = fo.cbs]
                  /\ lastBrand' = [lastBrand EXCEPT ![i] = fo.lb]
                  /\ lastPostPlan' = [lastPostPlan EXCEPT ![i] = fo.lpp]
                  /\ nExec' = [nExec EXCEPT ![i] = PreExecuted(run[i].calls)]
                  /\ pc' = [pc EXCEPT ![i] = "dispatching"]
    /\ UNCHANGED <<scenario, fetchedPlan, nFail, kind, run, retryCount, submitted, iter, nSubmits, nCreated,
                   handlerVars>>

\* BaseAgent.runAgentAutonomously: Promise.all(toolCalls.map(...)) up to the awaits
BaseDispatch(i) ==
    /\ AtRequiredAction(i)
    /\ kind[i] = "base"
    /\ ~run[i].missing
    /\ toolCalls' = [toolCalls EXCEPT ![i] = run[i].calls]
    /\ cb' = [cb EXCEPT ![i] = BaseFanOut(run[i].calls)]
    /\ pc' = [pc EXCEPT ![i] = "dispatching"]
    /\ UNCHANGED <<scenario, fetchedPlan, nExec, nFail, kind, run, retryCount, lastBrand, lastPostPlan, submitted,
                   iter, nSubmits, nCreated, handlerVars>>

\* history of the validation failures: the retry key of a call is its tool
\* name with its serialised arguments
FailKey(toolName, params) == <<toolName, params.f>>

Observe(h, toolName, params) ==
    IF validateToolOutput(toolName, params) = NoError THEN h
    ELSE LET key == FailKey(toolName, params)
         IN  [x \in DOMAIN h \cup {key} |->
                 IF x = key THEN (IF key \in DOMAIN h THEN h[key] ELSE 0) + 1 ELSE h[x]]

\* OrchestratorAgent.run: the tool of callback k settles and the callback runs
\* to its end: try/catch, validateToolOutput, guardrail, return
OrchComplete(i, k) ==
    /\ kind[i] = "orch"
    /\ k \in 1..Len(cb[i])
    /\ cb[i][k].st = "running"
    /\ \E o \in Execute(toolMap, cb[i][k].name, cb[i][k].params) :
          LET c == cb[i][k]
              call == [id |-> c.id, name |-> c.name]
              result == CaughtResult(o)
              g == Guardrail(retryCount[CounterStore(i)], c.id, c.name, c.params, result)
          IN  /\ fetchedPlan' = [fetchedPlan EXCEPT ![i] = ObservePlan(@, c.name, o, iter[i])]
              /\ nExec' = [nExec EXCEPT ![i] = CountExec(@, c.id, c.name)]
              /\ IF validateToolOutputThrows(c.name, c.params)
                 THEN /\ cb' = [cb EXCEPT ![i][k] =
                                   Callback("rejected", call, c.params, o.threw, result, NoOutput)]
                      /\ UNCHANGED <<retryCount, nFail>>
                 ELSE /\ cb' = [cb EXCEPT ![i][k] =
                                   Callback("fulfilled", call, c.params, o.threw, result, g.out)]
                      /\ retryCount' = [retryCount EXCEPT ![CounterStore(i)] = g.rc]
                      /\ nFail' = [nFail EXCEPT ![i] = Observe(@, c.name, c.params)]
    /\ UNCHANGED <<scenario, pc, kind, run, toolCalls, lastBrand, lastPostPlan, submitted,
                   iter, nSubmits, nCreated, handlerVars>>

\* BaseAgent.runAgentAutonomously: the tool of callback k settles and the
\* callback returns { toolCallId, output: JSON.stringify(result) }
BaseComplete(i, k) ==
    /\ kind[i] = "base"
    /\ k \in 1..Len(cb[i])
    /\ cb[i][k].st = "running"
    /\ \E o \in Execute(toolMap, cb[i][k].name, cb[i][k].params) :
          LET c == cb[i][k]
              call == [id |-> c.id, name |-> c.name]
              result == CaughtResult(o)
          IN  /\ fetchedPlan' = [fetchedPlan EXCEPT ![i] = ObservePlan(@, c.name, o, iter[i])]
              /\ nExec' = [nExec EXCEPT ![i] = CountExec(@, c.id, c.name)]
              /\ cb' = [cb EXCEPT ![i][k] =
                           Callback("fulfilled", call, c.params, o.threw, result,
                                    ResultOutput(c.id, result))]
    /\ UNCHANGED <<scenario, nFail, pc, kind, run, toolCalls, retryCount, lastBrand, lastPostPlan,
                   submitted, iter, nSubmits, nCreated, handlerVars>>

\* a rejected callback rejects Promise.all: the await throws out of the loop
Abort(i) ==
    /\ pc[i] = "dispatching"
    /\ AnyRejected(cb[i])
    /\ pc' = [pc EXCEPT ![i] = "thrown"]
    /\ UNCHANGED <<scenario, fetchedPlan, nExec, nFail, kind, run, toolCalls, cb, retryCount, lastBrand, lastPostPlan,
                   submitted, iter, nSubmits, nCreated, handlerVars>>

\* await this.client.runs.submitToolOutputs(thread.id, run.id, outputs)
Submit(i) ==
    /\ pc[i] = "dispatching"
    /\ AllFulfilled(cb[i])
    /\ submitted' = [submitted EXCEPT ![i] = [sent |-> TRUE, outputs |-> Outputs(cb[i])]]
    /\ nSubmits' = [nSubmits EXCEPT ![i] = @ + 1]
    /\ pc' = [pc EXCEPT ![i] = "submitted"]
    /\ UNCHANGED <<scenario, fetchedPlan, nExec, nFail, kind, run, toolCalls, cb, retryCount, lastBrand, lastPostPlan,
                   iter, nCreated, handlerVars>>

\* run = await this.client.runs.get(thread.id, run.id), back to the loop head
Poll(i) ==
    /\ \/ pc[i] = "submitted"
       \/ pc[i] = "loop" /\ LoopContinues(run[i]) /\ run[i].status # "requires_action"
    /\ \E r \in PlannerAnswers(i) :
          /\ run' = [run EXCEPT ![i] = r]
          /\ iter' = [iter EXCEPT ![i] = CountAnswer(i, r)]
    /\ toolCalls' = [toolCalls EXCEPT ![i] = <<>>]
    /\ cb' = [cb EXCEPT ![i] = <<>>]
    /\ submitted' = [submitted EXCEPT ![i] = NotSubmitted]
    /\ nSubmits' = [nSubmits EXCEPT ![i] = 0]
    /\ nExec' = [nExec EXCEPT ![i] = EmptyCounters]
    /\ pc' = [pc EXCEPT ![i] = "loop"]
    /\ UNCHANGED <<scenario, fetchedPlan, nFail, kind, retryCount, lastBrand, lastPostPlan, nCreated,
                   handlerVars>>

\* variant: a loop that also gives up once MaxIter batches have been asked for
ReturnAfterMaxIterations(i) ==
    /\ pc[i] = "loop"
    /\ ~LoopContinues(run[i]) \/ iter[i] >= MaxIter
    /\ pc' = [pc EXCEPT ![i] = "returned"]
    /\ UNCHANGED <<scenario, fetchedPlan, nExec, nFail, kind, run, toolCalls, cb, retryCount, lastBrand, lastPostPlan,
                   submitted, iter, nSubmits, nCreated, handlerVars>>

\* the while condition fails: the loop exits and the messages are returned
Return(i) ==
    /\ pc[i] = "loop"
    /\ ~LoopContinues(run[i])
    /\ pc' = [pc EXCEPT ![i] = "returned"]
    /\ UNCHANGED <<scenario, fetchedPlan, nExec, nFail, kind, run, toolCalls, cb, retryCount, lastBrand, lastPostPlan,
                   submitted, iter, nSubmits, nCreated, handlerVars>>

(***************************************************************************)
(* The planner's final message and its extraction                          *)
(* (CopywriterAgent.generateCopy, src/src/agent/copywriterAgent.ts).       *)
(* A text is a sequence of pieces: the structural characters { } " : , the *)
(* blank " ", and words, which hold none of these characters.  The JSON    *)
(* values of a message are objects, arrays, strings and null (the pieces   *)
(* [ and ] open and close an array); a string is the sequence of the       *)
(* pieces between its quotes (none of them a quote).                       *)
(***************************************************************************)
JUndefined == [t |-> "undefined", s |-> <<>>, f |-> <<>>, a |-> <<>>]
JNull == [t |-> "null", s |-> <<>>, f |-> <<>>, a |-> <<>>]
JStr(s) == [t |-> "str", s |-> s, f |-> <<>>, a |-> <<>>]
JObj(f) == [t |-> "obj", s |-> <<>>, f |-> f, a |-> <<>>]
JArr(a) == [t |-> "arr", s |-> <<>>, f |-> <<>>, a |-> a]

\* v[key], undefined when v is not an object or lacks the key
JGet(v, key) ==
    IF v.t = "obj" /\ \E k \in 1..Len(v.f) : v.f[k][1] = key
    THEN v.f[CHOOSE k \in 1..Len(v.f) : v.f[k][1] = key][2]
    ELSE JUndefined

\* a key met again keeps its place and takes the new value
JPut(f, key, value) ==
    IF \E k \in 1..Len(f) : f[k][1] = key
    THEN [k \in 1..Len(f) |-> IF f[k][1] = key THEN <<key, value>> ELSE f[k]]
    ELSE Append(f, <<key, value>>)

\* JavaScript truthiness: undefined, null and "" are falsy
JTruthy(v) == v.t = "obj" \/ v.t = "arr" \/ (v.t = "str" /\ v.s # <<>>)

\* typeof v === "object": objects, arrays and null
TypeofObject(v) == v.t \in {"obj", "arr", "null"}

\* JSON.stringify(v): no blanks, the fields in their order
RECURSIVE stringify(_)
RECURSIVE stringifyMembers(_, _)
RECURSIVE stringifyElements(_, _)
stringifyMembers(f, k) ==
    IF k > Len(f) THEN <<>>
    ELSE (IF k > 1 THEN <<",">> ELSE <<>>)
         \o <<"\"">> \o f[k][1] \o <<"\"", ":">> \o stringify(f[k][2])
         \o stringifyMembers(f, k + 1)

stringifyElements(a, k) ==
    IF k > Len(a) THEN <<>>
    ELSE (IF k > 1 THEN <<",">> ELSE <<>>) \o stringify(a[k]) \o stringifyElements(a, k + 1)

stringify(v) ==
    IF v.t = "obj" THEN <<"{">> \o stringifyMembers(v.f, 1) \o <<"}">>
    ELSE IF v.t = "arr" THEN <<"[">> \o stringifyElements(v.a, 1) \o <<"]">>
    ELSE IF v.t = "str" THEN <<"\"">> \o v.s \o <<"\"">>
    ELSE <<"null">>

\* JSON.parse(text) by recursive descent; a result is the value and the
\* position after it, or a failure (the SyntaxError)
ParseFailure == [ok |-> FALSE, val |-> JUndefined, pos |-> 0]
Parsed(v, pos) == [ok |-> TRUE, val |-> v, pos |-> pos]

RECURSIVE SkipBlanks(_, _)
SkipBlanks(text, i) ==
    IF i <= Len(text) /\ text[i] = " " THEN SkipBlanks(text, i + 1) ELSE i

PieceAt(text, i) == IF i \in 1..Len(text) THEN text[i] ELSE "<end>"

\* variant: a string decoder that drops the blanks of the string
NotBlank(piece) == piece # " "
ParseStringDroppingBlanks(text, i) ==
    IF \E j \in (i + 1)..Len(text) : text[j] = "\""
    THEN LET j == CHOOSE x \in (i + 1)..Len(text) :
                     text[x] = "\"" /\ \A y \in (i + 1)..(x - 1) : text[y] # "\""
         IN  Parsed(JStr(SelectSeq(SubSeq(text, i + 1, j - 1), NotBlank)), j + 1)
    ELSE ParseFailure

\* text[i] is an opening quote: the string runs to the next quote
ParseString(text, i) ==
    IF \E j \in (i + 1)..Len(text) : text[j] = "\""
    THEN LET j == CHOOSE x \in (i + 1)..Len(text) :
                     text[x] = "\"" /\ \A y \in (i + 1)..(x - 1) : text[y] # "\""
         IN  Parsed(JStr(SubSeq(text, i + 1, j - 1)), j + 1)
    ELSE ParseFailure

RECURSIVE ParseValue(_, _)
RECURSIVE ParseMembers(_, _, _)
RECURSIVE ParseElements(_, _, _)
\* "key" : value , ... }
ParseMembers(text, i0, acc) ==
    LET i == SkipBlanks(text, i0)
    IN  IF PieceAt(text, i) # "\"" THEN ParseFailure
        ELSE LET key == ParseString(text, i)
             IN  IF ~key.ok THEN ParseFailure
                 ELSE LET c == SkipBlanks(text, key.pos)
                      IN  IF PieceAt(text, c) # ":" THEN ParseFailure
                          ELSE LET v == ParseValue(text, c + 1)
                               IN  IF ~v.ok THEN ParseFailure
                                   ELSE LET n == SkipBlanks(text, v.pos)
                                            acc2 == JPut(acc, key.val.s, v.val)
                                        IN  IF PieceAt(text, n) = ","
                                            THEN ParseMembers(text, n + 1, acc2)
                                            ELSE IF PieceAt(text, n) = "}"
                                            THEN Parsed(JObj(acc2), n + 1)
                                            ELSE ParseFailure

\* value , ... ]
ParseElements(text, i0, acc) ==
    LET v == ParseValue(text, i0)
    IN  IF ~v.ok THEN ParseFailure
        ELSE LET n == SkipBlanks(text, v.pos)
                 acc2 == Append(acc, v.val)
             IN  IF PieceAt(text, n) = "," THEN ParseElements(text, n + 1, acc2)
                 ELSE IF PieceAt(text, n) = "]" THEN Parsed(JArr(acc2), n + 1)
                 ELSE ParseFailure

ParseValue(text, i0) ==
    LET i == SkipBlanks(text, i0)
    IN  IF PieceAt(text, i) = "null" THEN Parsed(JNull, i + 1)
        ELSE IF PieceAt(text, i) = "\"" THEN ParseString(text, i)
        ELSE IF PieceAt(text, i) = "{"
        THEN (IF PieceAt(text, SkipBlanks(text, i + 1)) = "}"
              THEN Parsed(JObj(<<>>), SkipBlanks(text, i + 1) + 1)
              ELSE ParseMembers(text, i + 1, <<>>))
        ELSE IF PieceAt(text, i) = "["
        THEN (IF PieceAt(text, SkipBlanks(text, i + 1)) = "]"
              THEN Parsed(JArr(<<>>), SkipBlanks(text, i + 1) + 1)
              ELSE ParseElements(text, i + 1, <<>>))
        ELSE ParseFailure

\* JSON.parse: one value, blanks around it, nothing else
ParseJSON(text) ==
    LET v == ParseValue(text, 1)
    IN  IF v.ok /\ SkipBlanks(text, v.pos) = Len(text) + 1 THEN v ELSE ParseFailure

\* output.match(/\{[\s\S]*\}/): from the first { to the last } after it
NoMatch == [found |-> FALSE, text |-> <<>>]

\* variant: a lazy match, from the first { to the first } after it
jsonMatchLazy(text) ==
    IF \E a \in 1..Len(text) : \E b \in (a + 1)..Len(text) : text[a] = "{" /\ text[b] = "}"
    THEN LET a == CHOOSE x \in 1..Len(text) :
                     text[x] = "{" /\ \A y \in 1..(x - 1) : text[y] # "{"
             b == CHOOSE x \in (a + 1)..Len(text) :
                     text[x] = "}" /\ \A y \in (a + 1)..(x - 1) : text[y] # "}"
         IN  [found |-> TRUE, text |-> SubSeq(text, a, b)]
    ELSE NoMatch

jsonMatch(text) ==
    IF \E a \in 1..Len(text) : \E b \in (a + 1)..Len(text) : text[a] = "{" /\ text[b] = "}"
    THEN LET a == CHOOSE x \in 1..Len(text) :
                     text[x] = "{" /\ \A y \in 1..(x - 1) : text[y] # "{"
             b == CHOOSE x \in (a + 1)..Len(text) :
                     text[x] = "}" /\ \A y \in (x + 1)..Len(text) : text[y] # "}"
         IN  [found |-> TRUE, text |-> SubSeq(text, a, b)]
    ELSE NoMatch

\* output: a string (its text), a value that is not a string, or the null it
\* starts as when the thread holds no assistant message
Message(text) == [present |-> TRUE, str |-> TRUE, text |-> text, val |-> JUndefined]
RawOutput(v) == [present |-> TRUE, str |-> FALSE, text |-> <<>>, val |-> v]
NoMessage == [present |-> FALSE, str |-> FALSE, text |-> <<>>, val |-> JNull]

ToOutput(v) == IF v.t = "str" THEN Message(v.s) ELSE RawOutput(v)

\* a thread message: its role and its content (a string, a list of
\* fragments, or anything else)
ThreadMessage(role, content) == [role |-> role, content |-> content]

\* content[0]?.text?.value
FirstTextValue(content) ==
    IF content.t = "arr" /\ Len(content.a) >= 1
    THEN JGet(JGet(content.a[1], <<"text">>), <<"value">>)
    ELSE JUndefined

\* the candidate of one message: the text value of its first fragment when
\* the content is a list and that value is truthy, otherwise the content
contentOutput(content) ==
    IF content.t = "arr" /\ JTruthy(FirstTextValue(content))
    THEN ToOutput(FirstTextValue(content))
    ELSE ToOutput(content)

\* variant: find without reverse, the first assistant message of the list
selectOutputFirstAssistant(msgs) ==
    LET idx == {k \in 1..Len(msgs) : msgs[k].role = "assistant"}
    IN  IF idx = {} THEN NoMessage
        ELSE contentOutput(msgs[CHOOSE k \in idx : \A j \in idx : k <= j].content)

\* allMessages.slice().reverse().find(m => m.role === "assistant")
selectOutput(msgs) ==
    LET idx == {k \in 1..Len(msgs) : msgs[k].role = "assistant"}
    IN  IF idx = {} THEN NoMessage
        ELSE contentOutput(msgs[CHOOSE k \in idx : \A j \in idx : j <= k].content)

\* if (output): null, undefined and the empty string are skipped
OutputTruthy(m) == m.present /\ (IF m.str THEN m.text # <<>> ELSE JTruthy(m.val))

\* the fallback: parse the matched substring, parsed stays null on failure
parseFallback(text) ==
    LET m == jsonMatch(text)
    IN  IF m.found /\ ParseJSON(m.text).ok THEN ParseJSON(m.text).val ELSE JNull

\* parsed: JSON.parse(output), else the fallback, else null
parseOutput(m) ==
    IF ~OutputTruthy(m) THEN JNull
    ELSE IF ~m.str THEN m.val
    ELSE IF ParseJSON(m.text).ok THEN ParseJSON(m.text).val
    ELSE parseFallback(m.text)

\* variant: a payload is enough, whatever it holds
isValidTaskPayloadOnly(v) == v.t = "obj" /\ JTruthy(JGet(v, <<"payload">>))

\* parsed && typeof parsed === "object" && parsed.payload
\*   && parsed.payload.postCopy && typeof parsed.payload.postCopy === "object"
isValidTask(v) ==
    /\ JTruthy(v)
    /\ TypeofObject(v)
    /\ JTruthy(JGet(v, <<"payload">>))
    /\ JTruthy(JGet(JGet(v, <<"payload">>), <<"postCopy">>))
    /\ TypeofObject(JGet(JGet(v, <<"payload">>), <<"postCopy">>))

\* CopywriterAgentResponse: postCopy, status, error
AgentResponse(postCopy, status, error) ==
    [defined |-> TRUE, postCopy |-> postCopy, status |-> status, error |-> error]
NoAgentResponse ==
    [defined |-> FALSE, postCopy |-> JUndefined, status |-> "", error |-> ""]

\* variant: a failed validation keeps the response it was initialised with,
\* whose error is undefined
buildResponseInitial(v) ==
    IF isValidTask(v)
    THEN AgentResponse(JGet(JGet(v, <<"payload">>), <<"postCopy">>), "success", "")
    ELSE AgentResponse(JNull, "error", "")

\* the output contract: a Task with an object under payload.postCopy, or the
\* error response
buildResponse(v) ==
    IF isValidTask(v)
    THEN AgentResponse(JGet(JGet(v, <<"payload">>), <<"postCopy">>), "success", "")
    ELSE AgentResponse(JNull, "error", "Agent did not return valid postCopy")

\* generateCopy from the candidate on: parse, validate, respond
\* (the status the run ended with is logged and not looked at again)
generateCopy(m) == buildResponse(parseOutput(m))

(***************************************************************************)
(* The final messages of the model.                                        *)
(***************************************************************************)
Key(name) == <<name>>
Field(name, value) == <<Key(name), value>>
Comment(s) == Field("comment", JStr(s))

\* { content: "X", comment: "Y", hashtags: ["#a"] }
PostCopyXYa ==
    JObj(<<Field("content", JStr(<<"X">>)), Comment(<<"Y">>),
           Field("hashtags", JArr(<<JStr(<<"#a">>)>>))>>)

\* postCopy objects: empty, flat, with braces inside a string, nested, with a list
PostCopies ==
    { JObj(<<>>),
      JObj(<<Comment(<<"hello">>)>>),
      JObj(<<Comment(<<"}">>)>>),
      JObj(<<Comment(<<"{", "hello">>)>>),
      JObj(<<Field("hashtags", JNull), Comment(<<"hello", " ", "world">>)>>),
      JObj(<<Field("media", JObj(<<Comment(<<>>)>>)), Comment(<<"hello">>)>>),
      PostCopyXYa }

\* the Task object the planner is asked to answer with
Task(postCopy) == JObj(<<Field("payload", JObj(<<Field("postCopy", postCopy)>>))>>)

\* answers that hold no payload.postCopy object
NonTasks ==
    { JObj(<<Field("payload", JObj(<<>>))>>),
      JObj(<<Field("payload", JObj(<<Field("postCopy", JStr(<<"hello">>))>>))>>),
      JObj(<<Field("payload", JObj(<<Field("postCopy", JNull)>>))>>),
      JObj(<<Field("payload", JStr(<<"hello">>))>>),
      JObj(<<Field("postCopy", JObj(<<Comment(<<"hello">>)>>))>>),
      JObj(<<Field("brand", JObj(<<Field("id", JStr(<<"b1">>))>>))>>),
      JStr(<<"done">>),
      JNull }

\* prose without braces, and prose with them
PlainProse ==
    { <<>>, <<" ">>, <<"Here", " ", "it", " ", "is", ":", " ">>, <<"Sure", ",">>,
      <<"\"", "ok", "\"", " ">> }
BraceProse == { <<"see", " ", "{", "x", "}", " ">>, <<"}", " ">>, <<" ", "{">> }
Prose == PlainProse \cup BraceProse

\* prose, one serialised value, prose
Wrapped(pre, v, post) == pre \o stringify(v) \o post

Texts ==
    { Wrapped(pre, v, post) : pre \in Prose, v \in {Task(p) : p \in PostCopies} \cup NonTasks,
                              post \in Prose }
    \cup { <<>>, <<"I", " ", "fetched", " ", "the", " ", "brand">>,
           <<"{", "\"", "payload", "\"", ":", "{">> }

\* [{ text: { value: text } }]: a content of one text fragment
FragmentList(text) ==
    JArr(<<JObj(<<Field("text", JObj(<<Field("value", JStr(text))>>))>>)>>)

UserMessage(content) == ThreadMessage("user", content)
AssistantMessage(content) == ThreadMessage("assistant", content)

TaskHello == Task(JObj(<<Comment(<<"hello">>)>>))
JustProse == <<"I", " ", "fetched", " ", "the", " ", "brand">>

\* the listed threads: the caller's message then one assistant message for
\* every text, and lists that differ in who spoke last and in the content's form
Threads ==
    { <<UserMessage(JStr(<<"go">>)), AssistantMessage(FragmentList(t))>> : t \in Texts }
    \cup
    { <<>>,
      <<UserMessage(JStr(stringify(TaskHello)))>>,
      <<UserMessage(FragmentList(stringify(TaskHello)))>>,
      <<AssistantMessage(FragmentList(stringify(Task(PostCopyXYa))))>>,
      <<AssistantMessage(FragmentList(stringify(Task(PostCopyXYa)))),
        UserMessage(JStr(stringify(TaskHello)))>>,
      <<AssistantMessage(FragmentList(stringify(TaskHello))),
        AssistantMessage(FragmentList(JustProse))>>,
      <<AssistantMessage(FragmentList(JustProse)), UserMessage(JStr(<<"more">>)),
        AssistantMessage(FragmentList(stringify(Task(PostCopyXYa))))>>,
      <<AssistantMessage(FragmentList(stringify(TaskHello))),
        AssistantMessage(JStr(stringify(Task(PostCopyXYa))))>>,
      <<AssistantMessage(JStr(stringify(TaskHello)))>>,
      <<AssistantMessage(JStr(<<>>))>>,
      <<AssistantMessage(JArr(<<>>))>>,
      <<AssistantMessage(FragmentList(<<>>))>>,
      <<AssistantMessage(JArr(<<JStr(stringify(TaskHello))>>))>>,
      <<AssistantMessage(TaskHello)>>,
      <<AssistantMessage(Task(JArr(<<>>)))>>,
      <<AssistantMessage(JObj(<<Field("postCopy", JObj(<<Comment(<<"hello">>)>>))>>))>>,
      <<AssistantMessage(JNull)>>,
      <<AssistantMessage(JUndefined)>> }

\* the final messages a handler invocation is tried with
FinalMessages ==
    { NoMessage,
      Message(stringify(Task(JObj(<<Comment(<<"hello">>)>>)))),
      Message(Wrapped(<<"Sure", ",">>, Task(JObj(<<>>)), <<" ">>)),
      Message(stringify(JObj(<<Field("brand", JObj(<<Field("id", JStr(<<"b1">>))>>))>>))),
      Message(stringify(JObj(<<Field("payload",
                                     JObj(<<Field("postCopy", JStr(<<"hello">>))>>))>>))),
      Message(<<"I", " ", "fetched", " ", "the", " ", "brand">>) }

(***************************************************************************)
(* The document tools over their containers (src/src/tools).  A tool call  *)
(* returns a value or throws; the store answers or fails.                  *)
(***************************************************************************)
ToolOk(v) == [threw |-> FALSE, msg |-> "", value |-> v]
ToolThrew(msg) == [threw |-> TRUE, msg |-> msg, value |-> JUndefined]
NoToolCall == [tool |-> "none", args |-> JUndefined, store |-> "none"]

\* no tool call under way
ToolsOff ==
    /\ brands = <<>>
    /\ posts = <<>>
    /\ toolCall = NoToolCall
    /\ toolOut = ToolOk(JUndefined)
    /\ nCalls = 0

\* reading a property of null or undefined is a TypeError
IsNullish(v) == v.t = "null" \/ v.t = "undefined"

\* !v || typeof v !== "string"
NotAString(v) == ~JTruthy(v) \/ v.t # "str"

\* SELECT * FROM c WHERE c.id = @id: the matching documents in store order
queryById(container, id) == SelectSeq(container, LAMBDA d : JGet(d, <<"id">>) = id)

\* variant: item(id).read(), a missing brand is an error
getBrandToolRead(args, container, storeOk) ==
    IF IsNullish(args) \/ ~storeOk
    THEN ToolThrew("Failed to fetch brand")
    ELSE LET resources == queryById(container, JGet(args, <<"brandId">>))
         IN  IF Len(resources) = 0
             THEN ToolThrew("Failed to fetch brand: Brand not found")
             ELSE ToolOk(JObj(<< << <<"brand">>, resources[1] >> >>))

\* getBrand: the query inside try/catch; no record, or any error, gives
\* { brand: null }
getBrandTool(args, container, storeOk) ==
    IF IsNullish(args) \/ ~storeOk
    THEN ToolOk(JObj(<< << <<"brand">>, JNull >> >>))
    ELSE LET resources == queryById(container, JGet(args, <<"brandId">>))
         IN  IF Len(resources) = 0
             THEN ToolOk(JObj(<< << <<"brand">>, JNull >> >>))
             ELSE ToolOk(JObj(<< << <<"brand">>, resources[1] >> >>))

\* the checks of content, comment and hashtags: the message thrown, or none
postCopyError(p) ==
    LET content == JGet(p, <<"content">>)
        comment == JGet(p, <<"comment">>)
        hashtags == JGet(p, <<"hashtags">>)
    IN  IF content.t # "str" \/ ~JTruthy(content)
        THEN "postCopy.content is required and must be a non-empty string"
        ELSE IF comment.t # "str" \/ ~JTruthy(comment)
        THEN "postCopy.comment is required and must be a non-empty string"
        ELSE IF hashtags.t # "arr" \/ Len(hashtags.a) = 0
        THEN "postCopy.hashtags is required and must be a non-empty array of strings"
        ELSE IF \E k \in 1..Len(hashtags.a) : hashtags.a[k].t # "str" \/ ~JTruthy(hashtags.a[k])
        THEN "Each hashtag in postCopy.hashtags must be a non-empty string"
        ELSE ""

\* the looser checks: content, comment and hashtags only typed when provided
postCopyErrorIfProvided(p) ==
    LET content == JGet(p, <<"content">>)
        comment == JGet(p, <<"comment">>)
        hashtags == JGet(p, <<"hashtags">>)
    IN  IF content.t # "undefined" /\ content.t # "str"
        THEN "postCopy.content must be a string if provided"
        ELSE IF comment.t # "undefined" /\ comment.t # "str"
        THEN "postCopy.comment must be a string if provided"
        ELSE IF hashtags.t # "undefined" /\ hashtags.t # "arr"
        THEN "postCopy.hashtags must be an array if provided"
        ELSE IF \E k \in 1..Len(hashtags.a) : hashtags.a[k].t # "str"
        THEN "Each hashtag in postCopy.hashtags must be a string"
        ELSE ""

\* the identifier the store gives a new document
NewId(container) == JStr([k \in 1..(Len(container) + 1) |-> "n"])

\* { id, brandId, postCopy, status: "draft" } as the store returns it
PostDoc(id, brandId, postCopy) ==
    JObj(<< << <<"id">>, id >>, << <<"brandId">>, brandId >>,
            << <<"postCopy">>, postCopy >>, << <<"status">>, JStr(<<"draft">>) >> >>)

ToolStep(out, container) == [out |-> out, posts |-> container]

\* variant: createPost with the checks of fields only when they are provided
createPostLax(args, container, storeOk) ==
    IF IsNullish(args)
    THEN ToolStep(ToolThrew("TypeError: Cannot read properties of null"), container)
    ELSE IF NotAString(JGet(args, <<"brandId">>))
    THEN ToolStep(ToolThrew("Missing or invalid required field: brandId"), container)
    ELSE IF ~JTruthy(JGet(args, <<"postCopy">>)) \/ ~TypeofObject(JGet(args, <<"postCopy">>))
    THEN ToolStep(ToolThrew("Missing or invalid required field: postCopy"), container)
    ELSE IF postCopyErrorIfProvided(JGet(args, <<"postCopy">>)) # ""
    THEN ToolStep(ToolThrew(postCopyErrorIfProvided(JGet(args, <<"postCopy">>))), container)
    ELSE IF ~storeOk
    THEN ToolStep(ToolThrew("Failed to create post document"), container)
    ELSE LET doc == PostDoc(NewId(container), JGet(args, <<"brandId">>),
                            JGet(args, <<"postCopy">>))
         IN  ToolStep(ToolOk(doc), Append(container, doc))

\* createPost: the argument checks, then container.items.create(postDoc)
createPost(args, container, storeOk) ==
    IF IsNullish(args)
    THEN ToolStep(ToolThrew("TypeError: Cannot read properties of null"), container)
    ELSE IF NotAString(JGet(args, <<"brandId">>))
    THEN ToolStep(ToolThrew("Missing or invalid required field: brandId"), container)
    ELSE IF ~JTruthy(JGet(args, <<"postCopy">>)) \/ ~TypeofObject(JGet(args, <<"postCopy">>))
    THEN ToolStep(ToolThrew("Missing or invalid required field: postCopy"), container)
    ELSE IF postCopyError(JGet(args, <<"postCopy">>)) # ""
    THEN ToolStep(ToolThrew(postCopyError(JGet(args, <<"postCopy">>))), container)
    ELSE IF ~storeOk
    THEN ToolStep(ToolThrew("Failed to create post document"), container)
    ELSE LET doc == PostDoc(NewId(container), JGet(args, <<"brandId">>),
                            JGet(args, <<"postCopy">>))
         IN  ToolStep(ToolOk(doc), Append(container, doc))

\* container.item(id, id).replace(body): the stored document becomes body;
\* an error when the store fails, holds no such document, or is handed a
\* body that is no document with that id
replace(container, id, body, storeOk) ==
    IF \/ ~storeOk
       \/ body.t # "obj"
       \/ JGet(body, <<"id">>) # id
       \/ ~\E k \in 1..Len(container) : JGet(container[k], <<"id">>) = id
    THEN ToolStep(ToolThrew("Failed to update post document"), container)
    ELSE ToolStep(ToolOk(body),
                  [k \in 1..Len(container) |->
                      IF JGet(container[k], <<"id">>) = id THEN body ELSE container[k]])

\* updatePost: the argument checks, then replace(updateFields)
updatePost(args, container, storeOk) ==
    IF IsNullish(args)
    THEN ToolStep(ToolThrew("TypeError: Cannot read properties of null"), container)
    ELSE IF NotAString(JGet(args, <<"postId">>))
    THEN ToolStep(ToolThrew("Missing or invalid required field: postId"), container)
    ELSE IF ~JTruthy(JGet(args, <<"updateFields">>))
            \/ ~TypeofObject(JGet(args, <<"updateFields">>))
    THEN ToolStep(ToolThrew("Missing or invalid required field: updateFields"), container)
    ELSE IF /\ JTruthy(JGet(JGet(args, <<"updateFields">>), <<"postCopy">>))
            /\ postCopyError(JGet(JGet(args, <<"updateFields">>), <<"postCopy">>)) # ""
    THEN ToolStep(ToolThrew(postCopyError(JGet(JGet(args, <<"updateFields">>), <<"postCopy">>))),
                  container)
    ELSE replace(container, JGet(args, <<"postId">>), JGet(args, <<"updateFields">>), storeOk)

(***************************************************************************)
(* TraceManager (src/src/shared/traceUtils.ts).  An optional timestamp is  *)
(* a sequence of at most one reading of the clock.                         *)
(***************************************************************************)
Unset == <<>>
At(t) == <<t>>
OrElse(a, b) == IF a # Unset THEN a ELSE b

NoTool == ""

\* the fields of a TraceEvent the handler sets (metadata.status of end events)
TraceEvent(eventType, agentName, toolName, timestamp, status) ==
    [eventType |-> eventType, agentName |-> agentName, toolName |-> toolName,
     timestamp |-> timestamp, status |-> status]

\* variant: addEvent that puts the new event in front (events.unshift)
addEventFirst(t, eventType, agentName, toolName, status, timestamp, now) ==
    [t EXCEPT !.events =
        <<TraceEvent(eventType,
                     IF agentName # "" THEN agentName ELSE t.agentName,
                     toolName, OrElse(timestamp, At(now)), status)>> \o @]

\* addEvent: timestamp || new Date(), agentName || this.agentName, events.push
addEvent(t, eventType, agentName, toolName, status, timestamp, now) ==
    [t EXCEPT !.events =
        Append(@, TraceEvent(eventType,
                             IF agentName # "" THEN agentName ELSE t.agentName,
                             toolName, OrElse(timestamp, At(now)), status))]

NoTrace ==
    [events |-> <<>>, agentName |-> "", status |-> "running",
     startedAt |-> Unset, endedAt |-> Unset]

\* constructor: status "running", startedAt, and a start event
NewTraceManager(agentName, now) ==
    addEvent([events |-> <<>>, agentName |-> agentName, status |-> "running",
              startedAt |-> At(now), endedAt |-> Unset],
             "start", agentName, NoTool, "", Unset, now)

\* end: endedAt = endedAt || new Date(); end event with metadata.status
end(t, now) ==
    LET t1 == [t EXCEPT !.endedAt = OrElse(@, At(now))]
    IN  addEvent(t1, "end", t1.agentName, NoTool, t1.status, t1.endedAt, now)

\* variant: fail that records the error event and does not call end()
failWithoutEnd(t, toolName, agentName, now) ==
    addEvent([t EXCEPT !.status = "failed", !.endedAt = At(now)],
             "error", agentName, toolName, "", Unset, now)

\* fail: status failed, endedAt = new Date(), an error event, then end()
fail(t, toolName, agentName, now) ==
    LET t1 == [t EXCEPT !.status = "failed", !.endedAt = At(now)]
    IN  end(addEvent(t1, "error", agentName, toolName, "", Unset, now), now)

\* succeed: status succeeded, endedAt = new Date(), then end()
succeed(t, now) ==
    end([t EXCEPT !.status = "succeeded", !.endedAt = At(now)], now)

\* buildAgentRun: the document handed to the agent-runs store
buildAgentRun(t) ==
    [events |-> t.events, startedAt |-> t.startedAt, endedAt |-> t.endedAt,
     status |-> t.status]

(***************************************************************************)
(* errorResponse / handleError (src/src/shared/errorUtils.ts) and the      *)
(* outcomes of one handler invocation.                                     *)
(***************************************************************************)
NoResponse == [kind |-> "none", status |-> 0, message |-> ""]
\* { status, jsonBody: { error: { message, details, raw } } }
errorResponse(status, message) == [kind |-> "envelope", status |-> status, message |-> message]
\* { status: 200, jsonBody: orchestratorResponse }
SuccessResponse == [kind |-> "envelope", status |-> 200, message |-> ""]
\* the invocation ended with an exception instead of a response
Uncaught(message) == [kind |-> "exception", status |-> 0, message |-> message]

\* variant: handleError that builds the response without touching the trace
handleErrorNoTrace(t, status, message, toolName, agentName, now) ==
    [trace |-> t, response |-> errorResponse(status, message)]

\* handleError: traceManager.fail(...), then return errorResponse(...)
handleError(t, status, message, toolName, agentName, now) ==
    [trace |-> fail(t, toolName, agentName, now), response |-> errorResponse(status, message)]

\* no request: the value of env outside the handler
NoEnv ==
    [body |-> [json |-> FALSE, object |-> FALSE, brandId |-> "absent", postPlanId |-> "absent"],
     endpoint |-> FALSE, planStore |-> "empty", brandStore |-> "empty",
     runStatus |-> "completed", finalMessage |-> NoMessage]

\* no extraction under way
ExtractOff ==
    /\ agentResponse = NoAgentResponse
    /\ messages = <<>>
    /\ xpc = "off"
    /\ output = NoMessage
    /\ parsed = JNull

HandlerOff ==
    /\ hpc = "off"
    /\ env = NoEnv
    /\ trace = NoTrace
    /\ clock = 0
    /\ response = NoResponse
    /\ effects = {}
    /\ step = "none"
    /\ traceCalls = <<>>
    /\ ExtractOff
    /\ ToolsOff

Init ==
    /\ scenario = [active |-> {1}, menu |-> "full", tools |-> "registered"]
    /\ LoopInit
    /\ HandlerOff

Next ==
    \E i \in Inv :
        \/ StartOrchRun(i)
        \/ StartBaseRun(i)
        \/ ThrowNoToolCalls(i)
        \/ OrchDispatch(i)
        \/ BaseDispatch(i)
        \/ \E k \in 1..(MaxBatch + 1) : OrchComplete(i, k)
        \/ \E k \in 1..(MaxBatch + 1) : BaseComplete(i, k)
        \/ Abort(i)
        \/ Submit(i)
        \/ Poll(i)
        \/ Return(i)

Spec == Init /\ [][Next]_vars

\* one invocation of either loop over the short menu
InitLive ==
    /\ scenario = [active |-> {1}, menu |-> "conc", tools |-> "registered"]
    /\ LoopInit
    /\ HandlerOff

\* every awaited remote call returns: a step that can be taken is taken
SpecLive == InitLive /\ [][Next]_vars /\ WF_vars(Next)

InitConc ==
    /\ scenario = [active |-> {1, 2}, menu |-> "conc", tools |-> "registered"]
    /\ LoopInit
    /\ HandlerOff

NextConc ==
    \E i \in Inv :
        \/ StartOrchRun(i)
        \/ ThrowNoToolCalls(i)
        \/ OrchDispatch(i)
        \/ \E k \in 1..(MaxBatch + 1) : OrchComplete(i, k)
        \/ Abort(i)
        \/ Submit(i)
        \/ Poll(i)
        \/ Return(i)

SpecConc == InitConc /\ [][NextConc]_vars

\* one OrchestratorAgent.run whose planner fetches a post plan and asks for content
InitTopic ==
    /\ scenario = [active |-> {1}, menu |-> "topic", tools |-> "registered"]
    /\ LoopInit
    /\ HandlerOff

NextTopic ==
    \E i \in Inv :
        \/ StartOrchRun(i)
        \/ OrchDispatch(i)
        \/ \E k \in 1..(MaxBatch + 1) : OrchComplete(i, k)
        \/ Submit(i)
        \/ Poll(i)
        \/ Return(i)

SpecTopic == InitTopic /\ [][NextTopic]_vars

\* one OrchestratorAgent.run over the guardrail scenario, with the registered
\* tools or with a tool map that also holds copywriterAgent
InitGuard ==
    /\ scenario \in { [active |-> {1}, menu |-> "guard", tools |-> t]
                      : t \in {"registered", "withCopywriter"} }
    /\ LoopInit
    /\ HandlerOff

NextGuard ==
    \E i \in Inv :
        \/ StartOrchRun(i)
        \/ OrchDispatch(i)
        \/ \E k \in 1..(MaxBatch + 1) : OrchComplete(i, k)
        \/ Submit(i)
        \/ Poll(i)
        \/ Return(i)

SpecGuard == InitGuard /\ [][NextGuard]_vars

(***************************************************************************)
(* orchestrateContent (src/src/functions/orchestrateContent.ts) as a state *)
(* machine, one action per awaited collaborator.                           *)
(*   hpc: received -> fetchPostPlan -> fetchBrand -> construct -> init     *)
(*        -> generate -> createPost -> storeTrace -> done                  *)
(*        (crashed: the invocation ended with an exception)                *)
(***************************************************************************)
\* a request body: whether it is JSON text, whether it decodes to an object,
\* and what its brandId and postPlanId fields are
IdKinds == {"absent", "number", "string"}
Body(json, object, brandId, postPlanId) ==
    [json |-> json, object |-> object, brandId |-> brandId, postPlanId |-> postPlanId]
Bodies ==
    {Body(FALSE, FALSE, "absent", "absent"), Body(TRUE, FALSE, "absent", "absent")}
    \cup {Body(TRUE, TRUE, b, p) : b \in IdKinds, p \in IdKinds}

\* await request.json() throws on text that is not JSON
requestJsonThrows(body) == ~body.json

\* variant: only brandId is looked at
isContentOrchestratorRequestBrandOnly(body) ==
    body.object /\ body.brandId = "string"

\* obj && typeof obj === 'object' && typeof obj.brandId === 'string'
\*     && typeof obj.postPlanId === 'string'
isContentOrchestratorRequest(body) ==
    body.object /\ body.brandId = "string" /\ body.postPlanId = "string"

\* what the document store does when a container is asked for and queried
StoreBehaviours == {"record", "empty", "queryError", "clientError"}

\* getPostPlan / getBrand as the handler calls them: the container is fetched
\* outside the try block, the query and its errors are inside it
getPostPlan(store) ==
    IF store = "clientError" THEN Threw("container not available")
    ELSE IF store = "record" THEN Returned("record", Absent)
    ELSE Returned("null", Absent)

getBrand(store) ==
    IF store = "clientError" THEN Threw("container not available")
    ELSE IF store = "record" THEN Returned("record", Absent)
    ELSE Returned("null", Absent)

\* new Date() may or may not have moved on by the next step
Tick == clock' \in {clock, clock + 1}

\* return handleError({...}): the handler ends with the error envelope
ReturnError(t, status, message, toolName, agentName) ==
    LET h == handleError(t, status, message, toolName, agentName, clock)
    IN  /\ trace' = h.trace
        /\ response' = h.response
        /\ hpc' = "done"

\* TraceManager set-up, the handler's own start event, request.json() and
\* isContentOrchestratorRequest
ReceiveRequest ==
    /\ hpc = "received"
    /\ LET t0 == addEvent(NewTraceManager("orchestrator", clock),
                          "start", "orchestrator", NoTool, "", Unset, clock)
       IN  IF requestJsonThrows(env.body)
           THEN ReturnError(t0, 400, "Invalid JSON in request body", NoTool, "orchestrator")
           ELSE IF ~isContentOrchestratorRequest(env.body)
           THEN ReturnError(t0, 400, "Missing or invalid postPlanId or brandId in request body",
                            NoTool, "orchestrator")
           ELSE /\ trace' = t0
                /\ hpc' = "fetchPostPlan"
                /\ UNCHANGED response
    /\ Tick
    /\ UNCHANGED <<scenario, loopVars, toolVars, extractVars, agentResponse, traceCalls, env, effects, step>>

\* fetch postPlan: tool-invoke, await getPostPlan, tool-result, the 404 / 500 envelopes
FetchPostPlan ==
    /\ hpc = "fetchPostPlan"
    /\ effects' = effects \cup {"getPostPlan"}
    /\ LET t1 == addEvent(trace, "tool-invoke", "orchestrator", "getPostPlan", "", Unset, clock)
           t2 == addEvent(t1, "tool-result", "orchestrator", "getPostPlan", "", Unset, clock)
           o == getPostPlan(env.planStore)
       IN  IF o.threw
           THEN ReturnError(t1, 500, "Error fetching postPlan", "getPostPlan", "orchestrator")
           ELSE IF o.res.value = "record"
           THEN /\ trace' = t2
                /\ hpc' = "fetchBrand"
                /\ UNCHANGED response
           ELSE ReturnError(t2, 404, "postPlan not found", "getPostPlan", "orchestrator")
    /\ Tick
    /\ UNCHANGED <<scenario, loopVars, toolVars, extractVars, agentResponse, traceCalls, env, step>>

\* fetch brand: tool-invoke, await getBrand, tool-result, the 404 / 500 envelopes
FetchBrand ==
    /\ hpc = "fetchBrand"
    /\ effects' = effects \cup {"getBrand"}
    /\ LET t1 == addEvent(trace, "tool-invoke", "orchestrator", "getBrand", "", Unset, clock)
           t2 == addEvent(t1, "tool-result", "orchestrator", "getBrand", "", Unset, clock)
           o == getBrand(env.brandStore)
       IN  IF o.threw
           THEN ReturnError(t1, 500, "Error fetching brand", "getBrand", "orchestrator")
           ELSE IF o.res.value = "record"
           THEN /\ trace' = t2
                /\ hpc' = "construct"
                /\ UNCHANGED response
           ELSE ReturnError(t2, 404, "brand not found", "getBrand", "orchestrator")
    /\ Tick
    /\ UNCHANGED <<scenario, loopVars, toolVars, extractVars, agentResponse, traceCalls, env, step>>

\* new CopywriterAgent(modelDeploymentName): the BaseAgent constructor throws
\* when the endpoint variable is not set, and no try block encloses the call
ConstructAgent ==
    /\ hpc = "construct"
    /\ IF env.endpoint
       THEN /\ hpc' = "init"
            /\ UNCHANGED response
       ELSE /\ hpc' = "crashed"
            /\ response' = Uncaught("Missing PROJECT_ENDPOINT environment variable")
    /\ Tick
    /\ UNCHANGED <<scenario, loopVars, toolVars, extractVars, agentResponse, traceCalls, env, trace, effects, step>>

\* the generateCopy tool-invoke event and await copywriterAgent.init()
InitAgent ==
    /\ hpc = "init"
    /\ effects' = effects \cup {"init"}
    /\ LET t1 == addEvent(trace, "tool-invoke", "copywriter", "generateCopy", "", Unset, clock)
       IN  \E o \in {"ok", "threw"} :
              IF o = "ok"
              THEN /\ trace' = t1
                   /\ hpc' = "generate"
                   /\ UNCHANGED response
              ELSE ReturnError(t1, 500, "Failed to initialize CopywriterAgent",
                               "init", "copywriter")
    /\ Tick
    /\ UNCHANGED <<scenario, loopVars, toolVars, extractVars, agentResponse, traceCalls, env, step>>

\* await copywriterAgent.generateCopy(...) (a remote call of it may throw),
\* the Step, and the postCopy check
\* variant: the handler goes on to createPost whatever generateCopy returned
GenerateCopyUnchecked ==
    /\ hpc = "generate"
    /\ effects' = effects \cup {"generateCopy"}
    /\ \E threw \in BOOLEAN :
          LET r == IF threw THEN NoAgentResponse ELSE generateCopy(env.finalMessage)
              t1 == IF threw
                    THEN addEvent(trace, "error", "copywriter", "generateCopy", "",
                                  At(clock), clock)
                    ELSE addEvent(trace, "tool-result", "copywriter", "generateCopy", "",
                                  At(clock), clock)
          IN  /\ agentResponse' = r
              /\ step' = IF r.status = "success" THEN "completed" ELSE "failed"
              /\ trace' = t1
              /\ hpc' = "createPost"
              /\ UNCHANGED response
    /\ Tick
    /\ UNCHANGED <<scenario, loopVars, toolVars, extractVars, traceCalls, env>>

\* generateCopy inside its try/catch, the Step, then the postCopy check
GenerateCopy ==
    /\ hpc = "generate"
    /\ effects' = effects \cup {"generateCopy"}
    /\ \E threw \in BOOLEAN :
          LET r == IF threw THEN NoAgentResponse ELSE generateCopy(env.finalMessage)
              t1 == IF threw
                    THEN addEvent(trace, "error", "copywriter", "generateCopy", "",
                                  At(clock), clock)
                    ELSE addEvent(trace, "tool-result", "copywriter", "generateCopy", "",
                                  At(clock), clock)
          IN  /\ agentResponse' = r
              /\ step' = IF r.status = "success" THEN "completed" ELSE "failed"
              /\ IF JTruthy(r.postCopy)
                 THEN /\ trace' = t1
                      /\ hpc' = "createPost"
                      /\ UNCHANGED response
                 ELSE ReturnError(t1, 500, "No postCopy returned from agent",
                                  "createPost", "orchestrator")
    /\ Tick
    /\ UNCHANGED <<scenario, loopVars, toolVars, extractVars, traceCalls, env>>

\* await createPost({ brandId, postCopy }), then the trace is finalised and
\* the agent-run document built
CreatePost ==
    /\ hpc = "createPost"
    /\ LET t1 == addEvent(trace, "tool-invoke", "orchestrator", "createPost", "", Unset, clock)
           t2 == addEvent(t1, "tool-result", "orchestrator", "createPost", "", Unset, clock)
       IN  \E o \in {"ok", "threw"} :
              IF o = "ok"
              THEN /\ trace' = IF step = "completed" THEN succeed(t2, clock)
                               ELSE end([t2 EXCEPT !.status = "failed"], clock)
                   /\ effects' = effects \cup {"createPost", "postWritten"}
                   /\ hpc' = "storeTrace"
                   /\ UNCHANGED response
              ELSE /\ ReturnError(t1, 500, "Failed to create post", "createPost", "orchestrator")
                   /\ effects' = effects \cup {"createPost"}
    /\ Tick
    /\ UNCHANGED <<scenario, loopVars, toolVars, extractVars, agentResponse, traceCalls, env, step>>

\* agentRunsContainer.items.create(agentRun) inside its own try/catch, then
\* the 200 response
StoreTrace ==
    /\ hpc = "storeTrace"
    /\ \E o \in {"ok", "threw"} :
          effects' = IF o = "ok" THEN effects \cup {"traceStored"} ELSE effects
    /\ response' = SuccessResponse
    /\ hpc' = "done"
    /\ Tick
    /\ UNCHANGED <<scenario, loopVars, toolVars, extractVars, agentResponse, traceCalls, env, trace, step>>

InitHandler ==
    /\ scenario = [active |-> {}, menu |-> "full", tools |-> "registered"]
    /\ LoopInit
    /\ hpc = "received"
    /\ env \in [body : Bodies, endpoint : BOOLEAN,
                planStore : StoreBehaviours, brandStore : StoreBehaviours,
                runStatus : Terminal, finalMessage : FinalMessages]
    /\ trace = NoTrace
    /\ clock = 1
    /\ response = NoResponse
    /\ effects = {}
    /\ step = "none"
    /\ traceCalls = <<>>
    /\ ExtractOff
    /\ ToolsOff

NextHandler ==
    \/ ReceiveRequest
    \/ FetchPostPlan
    \/ FetchBrand
    \/ ConstructAgent
    \/ InitAgent
    \/ GenerateCopy
    \/ CreatePost
    \/ StoreTrace

SpecHandler == InitHandler /\ [][NextHandler]_vars

(***************************************************************************)
(* One TraceManager under any sequence of calls of its public operations   *)
(* (src/src/shared/traceUtils.ts), the clock moving on or not between two  *)
(* calls.                                                                  *)
(***************************************************************************)
TraceIdle == hpc = "trace" /\ Len(traceCalls) < MaxCalls

Called(op) ==
    /\ traceCalls' = Append(traceCalls, op)
    /\ Tick
    /\ UNCHANGED <<scenario, loopVars, toolVars, extractVars, agentResponse, hpc, env, response,
                   effects, step>>

\* traceManager.addEvent({ eventType, toolName, agentName })
TraceAddEvent ==
    /\ TraceIdle
    /\ \E eventType \in {"start", "tool-invoke", "error"} : \E toolName \in {NoTool, "getBrand"} :
          trace' = addEvent(trace, eventType, "", toolName, "", Unset, clock)
    /\ Called("addEvent")

\* traceManager.fail({ error, toolName, agentName })
TraceFail ==
    /\ TraceIdle
    /\ \E toolName \in {NoTool, "getBrand"} : \E agentName \in {"", "copywriter"} :
          trace' = fail(trace, toolName, agentName, clock)
    /\ Called("fail")

\* traceManager.succeed()
TraceSucceed ==
    /\ TraceIdle
    /\ trace' = succeed(trace, clock)
    /\ Called("succeed")

\* traceManager.end()
TraceEnd ==
    /\ TraceIdle
    /\ trace' = end(trace, clock)
    /\ Called("end")

\* traceManager.buildAgentRun(): reads the fields, changes none
TraceBuildAgentRun ==
    /\ TraceIdle
    /\ buildAgentRun(trace).events = trace.events
    /\ trace' = trace
    /\ Called("buildAgentRun")

InitTrace ==
    /\ scenario = [active |-> {}, menu |-> "full", tools |-> "registered"]
    /\ LoopInit
    /\ hpc = "trace"
    /\ env = NoEnv
    /\ trace = NewTraceManager("orchestrator", 1)
    /\ clock \in {1, 2}
    /\ response = NoResponse
    /\ effects = {}
    /\ step = "none"
    /\ traceCalls = <<>>
    /\ ExtractOff
    /\ ToolsOff

NextTrace ==
    \/ TraceAddEvent
    \/ TraceFail
    \/ TraceSucceed
    \/ TraceEnd
    \/ TraceBuildAgentRun

SpecTrace == InitTrace /\ [][NextTrace]_vars

(***************************************************************************)
(* The extraction of generateCopy on its own, step by step, over the final *)
(* messages of Threads (copywriterAgent.ts L137-207).                      *)
(*   xpc: select -> parse -> (fallback ->) validate -> returned            *)
(***************************************************************************)
ExtractIdle ==
    <<scenario, loopVars, toolVars, hpc, env, trace, clock, response, effects, step, traceCalls,
      messages>>

\* the last assistant message of the list gives the candidate
SelectOutput ==
    /\ xpc = "select"
    /\ output' = selectOutput(messages)
    /\ xpc' = "parse"
    /\ UNCHANGED <<ExtractIdle, parsed, agentResponse>>

\* if (output) { try { parsed = JSON.parse(output) } catch ... }
DirectParse ==
    /\ xpc = "parse"
    /\ IF ~OutputTruthy(output)
       THEN /\ xpc' = "validate"
            /\ UNCHANGED parsed
       ELSE IF ~output.str
       THEN /\ parsed' = output.val
            /\ xpc' = "validate"
       ELSE IF ParseJSON(output.text).ok
       THEN /\ parsed' = ParseJSON(output.text).val
            /\ xpc' = "validate"
       ELSE /\ xpc' = "fallback"
            /\ UNCHANGED parsed
    /\ UNCHANGED <<ExtractIdle, output, agentResponse>>

\* catch: output.match(/\{[\s\S]*\}/), JSON.parse(jsonMatch[0])
FallbackParse ==
    /\ xpc = "fallback"
    /\ parsed' = parseFallback(output.text)
    /\ xpc' = "validate"
    /\ UNCHANGED <<ExtractIdle, output, agentResponse>>

\* the output contract and the CopywriterAgentResponse returned
Validate ==
    /\ xpc = "validate"
    /\ agentResponse' = buildResponse(parsed)
    /\ xpc' = "returned"
    /\ UNCHANGED <<ExtractIdle, output, parsed>>

InitExtract ==
    /\ scenario = [active |-> {}, menu |-> "full", tools |-> "registered"]
    /\ LoopInit
    /\ hpc = "off"
    /\ env = NoEnv
    /\ trace = NoTrace
    /\ clock = 0
    /\ response = NoResponse
    /\ effects = {}
    /\ step = "none"
    /\ traceCalls = <<>>
    /\ agentResponse = NoAgentResponse
    /\ messages \in Threads
    /\ xpc = "select"
    /\ output = NoMessage
    /\ parsed = JNull
    /\ ToolsOff

NextExtract ==
    \/ SelectOutput
    \/ DirectParse
    \/ FallbackParse
    \/ Validate

SpecExtract == InitExtract /\ [][NextExtract]_vars

(***************************************************************************)
(* The document tools called one after the other on the brand and post     *)
(* containers (getBrand, createPost, updatePost).                          *)
(***************************************************************************)
\* an object of the fields given, those with an undefined value left out
Args(fields) == JObj(SelectSeq(fields, LAMBDA p : p[2].t # "undefined"))

BrandA == JObj(<<Field("id", JStr(<<"b1">>)), Field("name", JStr(<<"A">>))>>)
BrandB == JObj(<<Field("id", JStr(<<"b1">>)), Field("name", JStr(<<"B">>))>>)
BrandOther == JObj(<<Field("id", JStr(<<"b2">>)), Field("name", JStr(<<"C">>))>>)

BrandContainers == { <<>>, <<BrandOther, BrandA, BrandB>> }

GetBrandArgs ==
    { Args(<<Field("brandId", id)>>) : id \in {JStr(<<"b1">>), JStr(<<"b2">>), JStr(<<"b9">>), JUndefined} }
    \cup {JNull}

PostCopyOf(content, comment, hashtags) ==
    Args(<<Field("content", content), Field("comment", comment), Field("hashtags", hashtags)>>)

Tags == JArr(<<JStr(<<"#a">>)>>)

\* what a caller may hand over as postCopy: well-formed, or wrong in one place
PostCopyInputs ==
    { PostCopyXYa,
      PostCopyOf(JUndefined, JStr(<<"Y">>), Tags),
      PostCopyOf(JStr(<<>>), JStr(<<"Y">>), Tags),
      PostCopyOf(JNull, JStr(<<"Y">>), Tags),
      PostCopyOf(JStr(<<"X">>), JUndefined, Tags),
      PostCopyOf(JStr(<<"X">>), JStr(<<>>), Tags),
      PostCopyOf(JStr(<<"X">>), JStr(<<"Y">>), JUndefined),
      PostCopyOf(JStr(<<"X">>), JStr(<<"Y">>), JArr(<<>>)),
      PostCopyOf(JStr(<<"X">>), JStr(<<"Y">>), JArr(<<JStr(<<>>)>>)),
      PostCopyOf(JStr(<<"X">>), JStr(<<"Y">>), JArr(<<JStr(<<"#a">>), JNull>>)),
      PostCopyOf(JStr(<<"X">>), JStr(<<"Y">>), JStr(<<"#a">>)),
      JNull, JUndefined, JStr(<<"X">>), JArr(<<>>) }

CreateArgs ==
    { Args(<<Field("brandId", JStr(<<"b1">>)), Field("postCopy", p)>>) : p \in PostCopyInputs }
    \cup { Args(<<Field("brandId", b), Field("postCopy", PostCopyXYa)>>)
           : b \in {JStr(<<>>), JUndefined, JObj(<<>>)} }
    \cup {JNull}

StoredPost == PostDoc(JStr(<<"p1">>), JStr(<<"b1">>), PostCopyXYa)

UpdateFieldsInputs ==
    { Args(<<Field("status", JStr(<<"published">>))>>),
      Args(<<Field("id", JStr(<<"p1">>)), Field("status", JStr(<<"published">>))>>),
      Args(<<Field("id", JStr(<<"p1">>)),
             Field("postCopy", PostCopyOf(JStr(<<"Z">>), JStr(<<"Y">>), Tags))>>),
      Args(<<Field("postCopy", PostCopyOf(JUndefined, JStr(<<"Y">>), Tags))>>),
      Args(<<Field("postCopy", JStr(<<"X">>))>>),
      JObj(<<>>), JNull, JUndefined, JStr(<<"X">>) }

UpdateArgs ==
    { Args(<<Field("postId", JStr(<<"p1">>)), Field("updateFields", u)>>) : u \in UpdateFieldsInputs }
    \cup { Args(<<Field("postId", id),
                  Field("updateFields", Args(<<Field("status", JStr(<<"published">>))>>))>>)
           : id \in {JStr(<<"p9">>), JStr(<<>>), JUndefined, JNull} }
    \cup {JNull}

ToolsIdle ==
    <<scenario, loopVars, hpc, env, trace, clock, response, effects, step, traceCalls,
      agentResponse, extractVars>>

StoreAnswer(storeOk) == IF storeOk THEN "ok" ELSE "error"

\* getBrandTool.execute(args)
CallGetBrand ==
    /\ nCalls < MaxToolCalls
    /\ \E args \in GetBrandArgs : \E storeOk \in BOOLEAN :
          /\ toolCall' = [tool |-> "getBrand", args |-> args, store |-> StoreAnswer(storeOk)]
          /\ toolOut' = getBrandTool(args, brands, storeOk)
    /\ nCalls' = nCalls + 1
    /\ UNCHANGED <<ToolsIdle, brands, posts>>

\* createPostTool.execute(args)
CallCreatePost ==
    /\ nCalls < MaxToolCalls
    /\ \E args \in CreateArgs : \E storeOk \in BOOLEAN :
          /\ toolCall' = [tool |-> "createPost", args |-> args, store |-> StoreAnswer(storeOk)]
          /\ toolOut' = createPost(args, posts, storeOk).out
          /\ posts' = createPost(args, posts, storeOk).posts
    /\ nCalls' = nCalls + 1
    /\ UNCHANGED <<ToolsIdle, brands>>

\* updatePostTool.execute(args)
CallUpdatePost ==
    /\ nCalls < MaxToolCalls
    /\ \E args \in UpdateArgs : \E storeOk \in BOOLEAN :
          /\ toolCall' = [tool |-> "updatePost", args |-> args, store |-> StoreAnswer(storeOk)]
          /\ toolOut' = updatePost(args, posts, storeOk).out
          /\ posts' = updatePost(args, posts, storeOk).posts
    /\ nCalls' = nCalls + 1
    /\ UNCHANGED <<ToolsIdle, brands>>

InitTools ==
    /\ scenario = [active |-> {}, menu |-> "full", tools |-> "registered"]
    /\ LoopInit
    /\ hpc = "off"
    /\ env = NoEnv
    /\ trace = NoTrace
    /\ clock = 0
    /\ response = NoResponse
    /\ effects = {}
    /\ step = "none"
    /\ traceCalls = <<>>
    /\ ExtractOff
    /\ brands \in BrandContainers
    /\ posts \in { <<>>, <<StoredPost>> }
    /\ toolCall = NoToolCall
    /\ toolOut = ToolOk(JUndefined)
    /\ nCalls = 0

NextTools ==
    \/ CallGetBrand
    \/ CallCreatePost
    \/ CallUpdatePost

SpecTools == InitTools /\ [][NextTools]_vars

(***************************************************************************)
(* Properties of the polling loops.                                        *)
(***************************************************************************)
Failures(i, key) == IF key \in DOMAIN nFail[i] THEN nFail[i][key] ELSE 0

\* callback k of invocation i returns in this step
Completes(i, k) ==
    /\ k \in DOMAIN cb[i]
    /\ k \in DOMAIN cb'[i]
    /\ cb[i][k].st = "running"
    /\ cb'[i][k].st = "fulfilled"

\* callback k of invocation i has returned a guardrail result
FailedValidation(i, k) ==
    /\ kind[i] = "orch"
    /\ cb[i][k].st = "fulfilled"
    /\ validateToolOutput(cb[i][k].name, cb[i][k].params) # NoError

\* C1: in OrchestratorAgent.run the n-th validation failure of a retry key
\* (tool name + serialised arguments) returns the validation error with the
\* attempt number n when n < MAX_RETRIES and a result marked status "failed"
\* when n >= MAX_RETRIES; once a key has had a terminal result every later
\* failure of that key is terminal as well.
C1_NthFailureResult ==
    [][\A i \in Inv : \A k \in 1..(MaxBatch + 1) :
          (/\ Completes(i, k)
           /\ kind[i] = "orch"
           /\ validateToolOutput(cb[i][k].name, cb[i][k].params) # NoError)
          => LET c == cb'[i][k]
                 verr == validateToolOutput(c.name, c.params)
                 key == FailKey(c.name, c.params)
                 before == Failures(i, key)
                 n == before + 1
             IN  /\ nFail'[i][key] = n
                 /\ n < MAX_RETRIES => c.out = RetryOutput(c.id, verr, n)
                 /\ n >= MAX_RETRIES => c.out = FailedOutput(c.id, verr)
                 /\ before >= MAX_RETRIES => c.out.status = "failed"]_vars

\* C1 witness: a key fails for the fourth time, after its terminal third failure
C1_Witness ==
    \E i \in Inv : \E k \in DOMAIN cb[i] :
        /\ FailedValidation(i, k)
        /\ cb[i][k].out.status = "failed"
        /\ Failures(i, FailKey(cb[i][k].name, cb[i][k].params)) = 4

\* C2 (as stated): a createPost call failing validation identically gets retry
\* results on its first three occurrences; the fourth occurrence is the first
\* to get the terminal failure result.
C2_FourthIsFirstTerminal ==
    \A i \in Inv : \A k \in DOMAIN cb[i] :
        (/\ FailedValidation(i, k)
         /\ cb[i][k].name = "createPost"
         /\ cb[i][k].out.status = "failed")
        => Failures(i, FailKey(cb[i][k].name, cb[i][k].params)) >= 4

\* C2 (amended): a createPost call failing validation identically gets retry
\* results numbered 1 and 2 on its first two occurrences; the third occurrence
\* is the first to get the terminal failure result.
C2_ThirdIsFirstTerminal ==
    [][\A i \in Inv : \A k \in 1..(MaxBatch + 1) :
          (/\ Completes(i, k)
           /\ kind[i] = "orch"
           /\ cb[i][k].name = "createPost"
           /\ validateToolOutput(cb[i][k].name, cb[i][k].params) # NoError)
          => LET c == cb'[i][k]
                 occurrence == Failures(i, FailKey(c.name, c.params)) + 1
             IN  /\ occurrence \in {1, 2} =>
                        c.out.shape = "retry" /\ c.out.retry = occurrence
                 /\ occurrence = 3 => c.out.shape = "failed" /\ c.out.status = "failed"
                 /\ c.out.shape = "failed" => occurrence >= 3]_vars

\* C2 witness: the third occurrence has just returned the terminal result
C2_Witness ==
    \E i \in Inv : \E k \in DOMAIN cb[i] :
        /\ FailedValidation(i, k)
        /\ cb[i][k].name = "createPost"
        /\ cb[i][k].out.status = "failed"
        /\ Failures(i, FailKey(cb[i][k].name, cb[i][k].params)) = 3

\* the counters invocation i reads and writes
Counters(i) == retryCount[CounterStore(i)]

\* C3: within one OrchestratorAgent.run invocation every retry counter only
\* increases, by exactly 1 per validation failure of its key; an invocation
\* starts with all counters at zero; and no step of one invocation changes
\* the counters of another, concurrent invocation of the same instance.
C3_CountersPerInvocation ==
    /\ [](\A i \in Inv :
            /\ DOMAIN Counters(i) = DOMAIN nFail[i]
            /\ \A key \in DOMAIN nFail[i] : Counters(i)[key] = nFail[i][key])
    /\ [][\A i \in Inv :
            /\ (pc[i] = "idle" /\ pc'[i] # "idle") => retryCount'[i] = EmptyCounters
            /\ pc[i] # "idle" =>
                 \A key \in DOMAIN retryCount'[i] :
                    retryCount'[i][key] \in {Count(retryCount[i], key),
                                             Count(retryCount[i], key) + 1}
            /\ retryCount'[i] # retryCount[i] =>
                 /\ \A j \in Inv \ {i} : cb'[j] = cb[j] /\ pc'[j] = pc[j]
                 /\ cb'[i] # cb[i] \/ pc'[i] # pc[i]]_vars

\* C3 witness: two invocations are dispatching at once, each with failures
\* of the same key counted, and their counts differ
C3_Witness ==
    /\ pc[1] = "dispatching"
    /\ pc[2] = "dispatching"
    /\ \E key \in DOMAIN nFail[1] \cap DOMAIN nFail[2] :
          /\ Count(retryCount[1], key) = 2
          /\ Count(retryCount[2], key) = 1

\* C4: for a tool call whose arguments pass the validator, dispatch followed
\* by validation changes no retry counter, and the output for the call is
\* the serialised tool result (or the caught tool error), never a retry or
\* terminal guardrail result.
C4_ValidCallNoRetry ==
    [][\A i \in Inv : \A k \in 1..(MaxBatch + 1) :
          (/\ k \in DOMAIN cb[i]
           /\ k \in DOMAIN cb'[i]
           /\ kind[i] = "orch"
           /\ cb[i][k].st = "running"
           /\ cb'[i][k].st # "running"
           /\ ~validateToolOutputThrows(cb[i][k].name, cb[i][k].params)
           /\ validateToolOutput(cb[i][k].name, cb[i][k].params) = NoError)
          => LET c == cb'[i][k]
             IN  /\ retryCount' = retryCount
                 /\ c.st = "fulfilled"
                 /\ c.out.shape = "result"
                 /\ c.out.toolCallId = c.id
                 /\ c.out.result = c.result
                 /\ c.out.retry = 0 /\ c.out.status = ""
                 /\ c.threw <=> c.result.error # NoError]_vars

\* C4 witness: a createPost call with a postCopy whose store write failed has
\* returned the caught error while a counter of another key stands at 2
C4_Witness ==
    \E i \in Inv : \E k \in DOMAIN cb[i] :
        /\ kind[i] = "orch"
        /\ cb[i][k].st = "fulfilled"
        /\ cb[i][k].name = "createPost"
        /\ validateToolOutput(cb[i][k].name, cb[i][k].params) = NoError
        /\ cb[i][k].threw
        /\ cb[i][k].out.shape = "result"
        /\ \E key \in DOMAIN retryCount[i] : retryCount[i][key] = 2

\* C5: every batch passed to submitToolOutputs holds exactly one output for
\* each ToolCall pending in that requires_action iteration, under that call's
\* identifier, and no identifier twice; in both loops.
C5_OneOutputPerPendingCall ==
    \A i \in Inv :
        submitted[i].sent =>
            LET outs == submitted[i].outputs
                pending == run[i].calls
            IN  /\ \A k \in DOMAIN pending :
                      Cardinality({j \in DOMAIN outs : outs[j].toolCallId = pending[k].id}) = 1
                /\ \A j \in DOMAIN outs :
                      \E k \in DOMAIN pending : outs[j].toolCallId = pending[k].id
                /\ \A j1, j2 \in DOMAIN outs :
                      outs[j1].toolCallId = outs[j2].toolCallId => j1 = j2

\* C5 witness: OrchestratorAgent.run has submitted the outputs of a batch of
\* two calls, one of them a copywriterAgent call
C5_Witness ==
    \E i \in Inv :
        /\ kind[i] = "orch"
        /\ submitted[i].sent
        /\ Len(submitted[i].outputs) = 2
        /\ HasCopywriterCall(run[i].calls)

\* C6: in each requires_action iteration submitToolOutputs is called at most
\* once and only after every dispatch started in the iteration has produced
\* its result; an iteration that aborts submits none of its outputs.
C6_FanInAllOrNothing ==
    /\ [](\A i \in Inv :
            /\ nSubmits[i] <= 1
            /\ pc[i] = "thrown" => ~submitted[i].sent /\ nSubmits[i] = 0
            /\ submitted[i].sent =>
                 /\ Len(submitted[i].outputs) = Len(toolCalls[i])
                 /\ \A j \in DOMAIN submitted[i].outputs :
                       submitted[i].outputs[j].shape # "none")
    /\ [][\A i \in Inv :
            nSubmits'[i] > nSubmits[i] =>
                /\ Len(cb[i]) = Len(toolCalls[i])
                /\ \A k \in DOMAIN cb[i] : cb[i][k].st = "fulfilled"
                /\ submitted'[i].outputs = [k \in DOMAIN cb[i] |-> cb[i][k].out]]_vars

\* C6 witness: an iteration aborted while one of its callbacks had already
\* returned its output, and nothing was submitted
C6_Witness ==
    \E i \in Inv :
        /\ pc[i] = "thrown"
        /\ \E k \in DOMAIN cb[i] : cb[i][k].st = "fulfilled"
        /\ \E k \in DOMAIN cb[i] : cb[i][k].st = "rejected"
        /\ ~submitted[i].sent

\* the output of callback c is an error object under the call's own identifier
ErrorOutputUnderOwnId(c) ==
    /\ c.out.toolCallId = c.id
    /\ \/ c.out.shape = "result" /\ c.out.result.error # NoError
       \/ c.out.shape \in {"retry", "failed"} /\ c.out.error # NoError

\* C7: when a registered tool's execute throws during dispatch the loop does
\* not abort: the callback returns an error object under the call's own
\* identifier, so that the batch can be submitted.
C7_ExecuteFailureIsAnOutput ==
    \A i \in Inv : \A k \in DOMAIN cb[i] :
        (/\ cb[i][k].name \in agentToolMap
         /\ cb[i][k].threw
         /\ cb[i][k].st # "running")
        => /\ cb[i][k].st = "fulfilled"
           /\ ErrorOutputUnderOwnId(cb[i][k])

\* C8: a ToolCall naming a tool absent from the tool map yields an error
\* output for that call, never a rejected callback or an exception out of
\* the loop.
C8_AbsentToolIsAnOutput ==
    \A i \in Inv :
        /\ \A k \in DOMAIN cb[i] :
              cb[i][k].name \notin agentToolMap =>
                 /\ cb[i][k].st # "rejected"
                 /\ cb[i][k].st = "fulfilled" => ErrorOutputUnderOwnId(cb[i][k])
        /\ (pc[i] = "thrown" /\ ~run[i].missing) =>
              \A k \in DOMAIN run[i].calls : run[i].calls[k].name \in agentToolMap

\* C9: no content of a pending ToolCall makes OrchestratorAgent.run or
\* BaseAgent.runAgentAutonomously throw: an invocation ends with an exception
\* only when the required action carries no tool calls at all.
C9_NoToolCallContentThrows ==
    \A i \in Inv : pc[i] = "thrown" => run[i].missing

\* C23: one invocation creates exactly one run; once a fetched status is
\* completed, failed or cancelled, the invocation creates no run, fetches no
\* status and submits no outputs any more.
C23_OneRunNothingAfterTerminal ==
    \A i \in Inv :
        /\ nCreated[i] <= 1
        /\ pc[i] # "idle" => nCreated[i] = 1
        /\ run[i].status \in {"completed", "failed", "cancelled"}
              => /\ ~ENABLED StartOrchRun(i)
                 /\ ~ENABLED StartBaseRun(i)
                 /\ ~ENABLED Poll(i)
                 /\ ~ENABLED Submit(i)
                 /\ ~ENABLED OrchDispatch(i)
                 /\ ~ENABLED BaseDispatch(i)

\* a run that asked for tool calls and then failed has been returned from
C23_Witness ==
    /\ pc[1] = "returned"
    /\ run[1].status = "failed"
    /\ iter[1] >= 1
    /\ nCreated[1] = 1

\* C24: once the planning entity has reported completed, failed or cancelled
\* the loop exits and the operation returns; it returns only when the status
\* fetched last is one of the three; and after every iteration, a submission
\* of tool outputs included, the next thing the loop does is fetch the status.
C24_LoopExitsOnTerminalStatus ==
    /\ \A i \in Inv :
          (run[i].status \in {"completed", "failed", "cancelled"}) ~> (pc[i] = "returned")
    /\ [](\A i \in Inv :
            pc[i] = "returned" => run[i].status \in {"completed", "failed", "cancelled"})
    /\ [](\A i \in Inv :
            (\/ pc[i] = "submitted"
             \/ pc[i] = "loop" /\ run[i].status \in {"queued", "in_progress"})
            => /\ ENABLED Poll(i)
               /\ ~ENABLED Return(i)
               /\ ~ENABLED Submit(i))
    /\ \A i \in Inv :
          (pc[i] = "submitted") ~> (pc[i] = "loop" /\ ~submitted[i].sent)

\* the operation returned after a batch was submitted and the status fetched again
C24_Witness ==
    /\ pc[1] = "returned"
    /\ run[1].status = "completed"
    /\ iter[1] >= 1

\* C25: as long as the status fetched last is not completed, failed or
\* cancelled the loop does not exit, however many batches were asked for and
\* whatever the retry counters hold: the operation has not returned, the
\* loop exit is not enabled, and an exception comes only from a batch
\* (missing tool calls, a rejected callback), never from a bound or deadline.
C25_NoExitWithoutTerminalStatus ==
    \A i \in Inv :
        run[i].status \notin {"completed", "failed", "cancelled"}
        => /\ pc[i] # "returned"
           /\ ~ENABLED Return(i)
           /\ pc[i] = "thrown"
                 => /\ run[i].status = "requires_action"
                    /\ \/ run[i].missing
                       \/ AutoInjectThrows(run[i].calls)
                       \/ AnyRejected(cb[i])

\* the last batch the planner may ask for has been submitted, with a call the
\* guardrail has given up on, and the loop is about to fetch the status again
C25_Witness ==
    /\ pc[1] = "submitted"
    /\ iter[1] = MaxIter
    /\ \E k \in 1..Len(submitted[1].outputs) : submitted[1].outputs[k].shape = "failed"
    /\ ENABLED Poll(1)

\* the calls of a batch that carry the given tool name
CallsNamed(calls, name) == {k \in 1..Len(calls) : calls[k].name = name}

\* the batch of invocation i has gone through the auto-inject pass
Dispatched(i) == kind[i] = "orch" /\ pc[i] \in {"dispatching", "submitted"}

C27_NoSecondCreatePost ==
    \A i \in Inv :
        ( /\ Dispatched(i)
          /\ HasCopywriterCall(run[i].calls)
          /\ CallsNamed(run[i].calls, "createPost") # {} )
        => /\ toolCalls[i] = run[i].calls
           /\ \A k \in 1..Len(toolCalls[i]) : toolCalls[i][k].id # InjectedId
           /\ Len(cb[i]) = Len(run[i].calls)

\* a batch of one copywriterAgent call and one createPost call was submitted
C27_Witness ==
    /\ Dispatched(1)
    /\ pc[1] = "submitted"
    /\ HasCopywriterCall(run[1].calls)
    /\ Cardinality(CallsNamed(run[1].calls, "createPost")) = 1
    /\ Len(submitted[1].outputs) = 2

\* C28: a copywriterAgent call that comes without a topic, or with an empty
\* one, after a post plan with topics was fetched in an earlier iteration of
\* the run, is dispatched with the first topic of that plan; a call that
\* brings a topic of its own is dispatched with it.
C28_TopicFromFetchedPlan ==
    \A i \in Inv : \A k \in 1..Len(cb[i]) :
        LET c == cb[i][k]
            args == Decode(toolCalls[i][k].args)
        IN  (c.name = "copywriterAgent" /\ c.st # "rejected")
            => IF Truthy(Get(args, "topic"))
               THEN Get(c.params, "topic") = Get(args, "topic")
               ELSE ( /\ fetchedPlan[i].doc = StoredPostPlan
                      /\ fetchedPlan[i].at < iter[i] )
                    => Get(c.params, "topic") = Get(StoredPostPlan, "content")

(***************************************************************************)
(* Properties of the guardrail over the guardrail scenario.                *)
(***************************************************************************)
\* C34: a createPost call whose postCopy is present but lacks a non-empty
\* content is a validation failure for the guardrail: once its callback has
\* returned, the retry counter of its key has been raised and its output is
\* the retry or the terminal guardrail result.
C34_EmptyContentFailsValidation ==
    \A i \in Inv : \A k \in 1..Len(cb[i]) :
        ( /\ cb[i][k].st = "fulfilled"
          /\ cb[i][k].name = "createPost"
          /\ Get(cb[i][k].params, "postCopy") = "pc:nocontent" )
        => /\ cb[i][k].out.shape \in {"retry", "failed"}
           /\ Count(retryCount[CounterStore(i)], <<"createPost", cb[i][k].params.f>>) >= 1

\* C35: createPost calls with the same argument names and values share one
\* retry counter whatever the order of their fields: once both field orders
\* have failed validation, the counter of either equals the failures of both
\* together.
C35_RetryKeyIgnoresFieldOrder ==
    \A i \in Inv :
        LET total == Failures(i, <<"createPost", ArgsNoteLast.f>>)
                     + Failures(i, <<"createPost", ArgsNoteFirst.f>>)
        IN  ( /\ Failures(i, <<"createPost", ArgsNoteLast.f>>) >= 1
              /\ Failures(i, <<"createPost", ArgsNoteFirst.f>>) >= 1 ) =>
              /\ Count(retryCount[CounterStore(i)], RetryKey("createPost", ArgsNoteLast)) = total
              /\ Count(retryCount[CounterStore(i)], RetryKey("createPost", ArgsNoteFirst)) = total

\* the callbacks of invocation i's batch that carry the same call as callback k
SameCall(i, k) ==
    {j \in 1..Len(cb[i]) : cb[i][j].name = cb[i][k].name /\ cb[i][j].params = cb[i][k].params}

\* a createPost call without postCopy: the one validation failure there is
LacksPostCopy(c) == c.name = "createPost" /\ ~c.params.null /\ ~Truthy(Get(c.params, "postCopy"))

\* the count of the key of callback k, less the identical calls already returned
CountAtDispatch(i, k) ==
    Count(retryCount[CounterStore(i)], <<cb[i][k].name, cb[i][k].params.f>>)
    - Cardinality({j \in SameCall(i, k) : cb[i][j].st = "fulfilled"})

\* C36: when a batch holds two or more identical calls that fail validation,
\* with the key's counter at c when they are dispatched, every completion of
\* one of them raises the counter by exactly one, whatever the order of the
\* completions: the i-th to complete finds the count c + i and returns the
\* guardrail result of that count, the other steps of the batch leave the
\* counter alone, and at fan-in the counter reads c + k.
C36_ConcurrentFailuresCountOnce ==
    [][\A i \in Inv : \A k \in 1..Len(cb[i]) :
         ( /\ pc[i] = "dispatching"
           /\ pc'[i] = "dispatching"
           /\ LacksPostCopy(cb[i][k])
           /\ Cardinality(SameCall(i, k)) >= 2 )
         => LET c == CountAtDispatch(i, k)
                done == Cardinality({j \in SameCall(i, k) : cb'[i][j].st = "fulfilled"})
                key == <<cb[i][k].name, cb[i][k].params.f>>
                msg == "Missing required postCopy for createPost."
            IN  /\ Len(cb'[i]) = Len(cb[i])
                /\ Count(retryCount'[CounterStore(i)], key) = c + done
                /\ (cb[i][k].st = "running" /\ cb'[i][k].st = "fulfilled")
                      => cb'[i][k].out =
                            IF c + done < MAX_RETRIES
                            THEN RetryOutput(cb[i][k].id, msg, c + done)
                            ELSE FailedOutput(cb[i][k].id, msg)]_vars

\* two identical failing calls of one batch, the second completed first: it
\* was told retry 1 and the first retry 2
C36_Witness ==
    /\ pc[1] = "dispatching"
    /\ Len(cb[1]) = 2
    /\ cb[1][1].params = ArgsNoteLast
    /\ cb[1][2].params = ArgsNoteLast
    /\ cb[1][1].name = "createPost"
    /\ cb[1][2].out.shape = "retry"
    /\ cb[1][2].out.retry = 1
    /\ cb[1][1].out.shape = "retry"
    /\ cb[1][1].out.retry = 2

\* C37: within one requires_action iteration of OrchestratorAgent.run, with
\* the registered tools or with any other tool map, the execute function of
\* a pending tool call's tool is invoked at most once for that call.
C37_ExecuteAtMostOncePerCall ==
    \A i \in Inv : \A id \in DOMAIN nExec[i] : nExec[i][id] <= 1

(***************************************************************************)
(* Properties of the orchestrateContent handler.                           *)
(***************************************************************************)
\* C10: every invocation of orchestrateContent ends by returning a response
\* object, the success envelope or an error envelope with a message; no
\* failure of a collaborator, agent construction included, ends it with an
\* uncaught exception.
C10_HandlerAlwaysResponds ==
    /\ hpc # "crashed"
    /\ response.kind # "exception"
    /\ hpc = "done" =>
          /\ response.kind = "envelope"
          /\ response.status # 200 => response.message # ""

\* the positions of the events of one type in an event sequence
EventsOfType(events, eventType) == {k \in DOMAIN events : events[k].eventType = eventType}

\* the handler has returned a response with an error status
ReturnedError == hpc = "done" /\ response.kind = "envelope" /\ response.status # 200

\* C11: on every failure path of orchestrateContent the finalized trace record
\* has been written to the agent-runs store by the time the error response is
\* returned.
C11_FailureTracePersisted ==
    ReturnedError => "traceStored" \in effects

\* C12: on every return path of orchestrateContent the event sequence of the
\* trace begins with a start event and holds exactly one start event.
C12_ExactlyOneStart ==
    hpc = "done" =>
        /\ Len(trace.events) >= 1
        /\ trace.events[1].eventType = "start"
        /\ Cardinality(EventsOfType(trace.events, "start")) = 1

\* C13: on every return path of orchestrateContent the trace is finalized:
\* its status is succeeded or failed, its event sequence holds exactly one
\* end event, that event is the last one, and its metadata status is the
\* status of the trace.
C13_TraceFinalizedOnReturn ==
    hpc = "done" =>
        /\ trace.status \in {"succeeded", "failed"}
        /\ Cardinality(EventsOfType(trace.events, "end")) = 1
        /\ Len(trace.events) >= 1
        /\ trace.events[Len(trace.events)].eventType = "end"
        /\ trace.events[Len(trace.events)].status = trace.status

\* C13 witness: the handler returned an error envelope after a failed brand
\* lookup, with the trace failed and closed by its end event
C13_Witness ==
    /\ ReturnedError
    /\ "getBrand" \in effects
    /\ trace.status = "failed"
    /\ trace.events[Len(trace.events)].eventType = "end"
    /\ trace.events[Len(trace.events)].status = "failed"

\* C18: in the trace recorded by orchestrateContent every tool-result event
\* and every error event that names a tool comes after a tool-invoke event
\* naming the same tool.
C18_InvokeBeforeResult ==
    \A k \in DOMAIN trace.events :
        (/\ trace.events[k].eventType \in {"tool-result", "error"}
         /\ trace.events[k].toolName # NoTool)
        => \E j \in 1..(k - 1) :
              /\ trace.events[j].eventType = "tool-invoke"
              /\ trace.events[j].toolName = trace.events[k].toolName

\* the request body is not JSON or lacks a string brandId or postPlanId
MalformedRequest ==
    \/ ~env.body.json
    \/ ~env.body.object
    \/ env.body.brandId # "string"
    \/ env.body.postPlanId # "string"

\* C19: when the request body is not valid JSON or lacks a string brandId or
\* a string postPlanId, orchestrateContent returns a 400 response and has
\* performed no store lookup, no agent initialisation, no run creation and
\* no post creation.
C19_MalformedRequestRejectedEarly ==
    (MalformedRequest /\ hpc # "received") =>
        /\ hpc = "done"
        /\ response.kind = "envelope"
        /\ response.status = 400
        /\ effects = {}
        /\ step = "none"

\* C19 witness: a body with a string brandId and a numeric postPlanId was
\* answered with 400
C19_Witness ==
    /\ hpc = "done"
    /\ env.body = Body(TRUE, TRUE, "string", "number")
    /\ response.status = 400
    /\ effects = {}

\* the store query raised an error during a lookup the handler made
StoreQueryFailed ==
    \/ "getPostPlan" \in effects /\ env.planStore = "queryError"
    \/ "getBrand" \in effects /\ env.brandStore = "queryError"

\* C20: if the store query raises an error while orchestrateContent fetches
\* the post plan or the brand, the caller receives a 5xx response, the trace
\* holds an error event, and the trace is finalized as failed.
C20_StoreFailureIsServerError ==
    (hpc = "done" /\ StoreQueryFailed) =>
        /\ response.kind = "envelope"
        /\ response.status >= 500
        /\ EventsOfType(trace.events, "error") # {}
        /\ trace.status = "failed"

\* the text holds the serialisation of a Task with a postCopy object
HoldsTask(text) ==
    \E a \in 1..Len(text) : \E b \in a..Len(text) : \E p \in PostCopies :
        SubSeq(text, a, b) = stringify(Task(p))

\* generateCopy ran to its return statement in this invocation
GenerateCopyReturned == "generateCopy" \in effects /\ agentResponse.defined

\* C21: when the planning run completed and the final planner message holds
\* no payload.postCopy object (no assistant message, a brand-only answer,
\* plain prose), generateCopy returns postCopy null with status error, and
\* the handler answers with the 500 error envelope, finalizes the trace as
\* failed and never calls createPost.
C21_NoPayloadIsAnErrorResponse ==
    ( /\ env.runStatus = "completed"
      /\ ~HoldsTask(env.finalMessage.text)
      /\ GenerateCopyReturned )
    => /\ agentResponse.postCopy = JNull
       /\ agentResponse.status = "error"
       /\ hpc = "done"
       /\ response.kind = "envelope"
       /\ response.status = 500
       /\ trace.status = "failed"
       /\ trace.endedAt # Unset
       /\ "createPost" \notin effects

\* a completed run whose final message is the brand-only answer was handled
C21_Witness ==
    /\ env.runStatus = "completed"
    /\ env.finalMessage =
          Message(stringify(JObj(<<Field("brand", JObj(<<Field("id", JStr(<<"b1">>))>>))>>)))
    /\ GenerateCopyReturned
    /\ agentResponse.status = "error"
    /\ response.status = 500
    /\ hpc = "done"

CreatePostInvocations ==
    {k \in DOMAIN trace.events :
        trace.events[k].eventType = "tool-invoke" /\ trace.events[k].toolName = "createPost"}

\* C38: orchestrateContent calls createPost at most once per request and only
\* after generateCopy returned a postCopy that is an object (never null or
\* undefined); whenever it returns an error envelope without having called
\* createPost, no post document has been written.
C38_CreatePostOnceAfterExtraction ==
    /\ Cardinality(CreatePostInvocations) <= 1
    /\ (CreatePostInvocations # {} \/ "createPost" \in effects \/ hpc = "createPost")
          => /\ agentResponse.defined
             /\ agentResponse.status = "success"
             /\ agentResponse.postCopy.t = "obj"
    /\ "postWritten" \in effects => "createPost" \in effects
    /\ (ReturnedError /\ "createPost" \notin effects)
          => /\ "postWritten" \notin effects
             /\ CreatePostInvocations = {}

\* a request whose final message held a Task: createPost was called, once
C38_Witness ==
    /\ hpc = "done"
    /\ "createPost" \in effects
    /\ "postWritten" \in effects
    /\ Cardinality(CreatePostInvocations) = 1
    /\ agentResponse.postCopy = JObj(<<Comment(<<"hello">>)>>)

(***************************************************************************)
(* Properties of the extraction of generateCopy.                           *)
(***************************************************************************)
BlankOnly(text) == \A k \in 1..Len(text) : text[k] = " "

Opens(text) == {k \in 1..Len(text) : text[k] = "{"}
Closes(text) == {k \in 1..Len(text) : text[k] = "}"}
FirstOpen(text) == CHOOSE a \in Opens(text) : \A x \in Opens(text) : a <= x
LastClose(text) == CHOOSE b \in Closes(text) : \A x \in Closes(text) : x <= b

\* the text from its first opening brace to its last closing brace
HasCandidate(text) ==
    Opens(text) # {} /\ Closes(text) # {} /\ FirstOpen(text) < LastClose(text)
Candidate(text) == SubSeq(text, FirstOpen(text), LastClose(text))

\* C29: a final text made of brace-free prose, one serialised Task object with
\* a postCopy object, and brace-free prose, which is not decodable as a whole,
\* is extracted with status success and the enclosed postCopy; and whenever the
\* fallback is taken, what it decodes is the text from the first opening brace
\* to the last closing brace (nothing when there is no such stretch).
C29_ProseWrappedTaskExtracted ==
    /\ [](\A pre \in PlainProse : \A post \in PlainProse : \A p \in PostCopies :
            ( /\ output = Message(Wrapped(pre, Task(p), post))
              /\ ~(BlankOnly(pre) /\ BlankOnly(post))
              /\ xpc = "returned" )
            => agentResponse = AgentResponse(p, "success", ""))
    /\ [][xpc = "fallback"
            => parsed' = IF HasCandidate(output.text) /\ ParseJSON(Candidate(output.text)).ok
                         THEN ParseJSON(Candidate(output.text)).val
                         ELSE JNull]_vars

\* a nested postCopy between two pieces of prose was extracted by the fallback
C29_Witness ==
    /\ xpc = "returned"
    /\ output = Message(Wrapped(<<"Here", " ", "it", " ", "is", ":", " ">>,
                                Task(JObj(<<Field("media", JObj(<<Comment(<<>>)>>)),
                                           Comment(<<"hello">>)>>)),
                                <<"Sure", ",">>))
    /\ ~ParseJSON(output.text).ok
    /\ agentResponse.status = "success"
    /\ agentResponse.postCopy.t = "obj"

\* C30: for every postCopy object P, the serialisation of {payload: {postCopy:
\* P}} given as the final message is extracted with status success and a
\* postCopy equal to P.
C30_SerialiseExtractRoundTrip ==
    \A p \in PostCopies :
        (output = Message(stringify(Task(p))) /\ xpc = "returned")
        => /\ agentResponse.status = "success"
           /\ agentResponse.postCopy = p

\* the serialisation of a postCopy with a string of several pieces came back
C30_Witness ==
    /\ xpc = "returned"
    /\ output = Message(stringify(Task(JObj(<<Field("hashtags", JNull),
                                              Comment(<<"hello", " ", "world">>)>>))))
    /\ agentResponse.status = "success"
    /\ JGet(agentResponse.postCopy, Key("comment")) = JStr(<<"hello", " ", "world">>)

\* the members of v named key (none when v is not an object)
Members(v, key) == IF v.t = "obj" THEN {k \in 1..Len(v.f) : v.f[k][1] = <<key>>} ELSE {}

\* the values found under payload.postCopy of v
PostCopiesOf(v) ==
    UNION { {v.f[k][2].f[j][2] : j \in Members(v.f[k][2], "postCopy")}
            : k \in Members(v, "payload") }

\* an object in the sense of typeof: a record of fields or a list
IsObject(v) == v.t = "obj" \/ v.t = "arr"

\* C31: once generateCopy has returned, its response has status success and
\* carries the extracted object exactly when the decoded final message is an
\* object whose payload.postCopy is an object (typeof "object": a record or a
\* list); in every other case (no assistant message, undecodable text,
\* missing field, field that is no object) the response has postCopy null,
\* status error and a non-empty error string.
C31_SuccessIffPostCopyObject ==
    xpc = "returned" =>
        /\ agentResponse.defined
        /\ IF \E p \in PostCopiesOf(parsed) : IsObject(p)
           THEN /\ agentResponse.status = "success"
                /\ agentResponse.postCopy \in PostCopiesOf(parsed)
                /\ IsObject(agentResponse.postCopy)
           ELSE /\ agentResponse.status = "error"
                /\ agentResponse.postCopy = JNull
                /\ agentResponse.error # ""
        /\ (\A k \in 1..Len(messages) : messages[k].role # "assistant")
              => agentResponse.status = "error"
        /\ (output.str /\ ~ParseJSON(output.text).ok /\ Opens(output.text) = {})
              => agentResponse.status = "error"

\* a final message whose payload.postCopy is a string came back as an error
C31_Witness ==
    /\ xpc = "returned"
    /\ parsed = JObj(<<Field("payload", JObj(<<Field("postCopy", JStr(<<"hello">>))>>))>>)
    /\ agentResponse = AgentResponse(JNull, "error", "Agent did not return valid postCopy")

AssistantPositions == {k \in 1..Len(messages) : messages[k].role = "assistant"}
LastAssistant == CHOOSE k \in AssistantPositions : \A j \in AssistantPositions : j <= k

\* the content is a list whose first fragment carries the non-empty text t
CarriesText(content, t) ==
    /\ t # <<>>
    /\ content.t = "arr"
    /\ Len(content.a) >= 1
    /\ content.a[1].t = "obj"
    /\ \E k \in 1..Len(content.a[1].f) :
          /\ content.a[1].f[k][1] = <<"text">>
          /\ content.a[1].f[k][2].t = "obj"
          /\ \E j \in 1..Len(content.a[1].f[k][2].f) :
                content.a[1].f[k][2].f[j] = << <<"value">>, JStr(t) >>

\* C32: the candidate comes from the last assistant message of the list and
\* never from a user message (none when no message is the assistant's); it
\* is the text value of the first fragment when the content is a fragment
\* list whose first fragment carries a text, the text itself when the content
\* is a string, and the raw content otherwise; a single assistant message
\* whose first fragment holds the serialised {payload: {postCopy: {content: X,
\* comment: Y, hashtags: [#a]}}} yields exactly that postCopy.
C32_CandidateFromLastAssistantMessage ==
    xpc # "select" =>
        /\ AssistantPositions = {} => output = NoMessage
        /\ AssistantPositions # {} =>
              LET c == messages[LastAssistant].content
              IN  /\ \A t \in Texts : CarriesText(c, t) => output = Message(t)
                  /\ c.t = "str" => output = Message(c.s)
                  /\ (c.t # "str" /\ \A t \in Texts : ~CarriesText(c, t)) => output = RawOutput(c)
        /\ ( /\ messages = <<AssistantMessage(FragmentList(stringify(Task(PostCopyXYa))))>>
             /\ xpc = "returned" )
           => agentResponse = AgentResponse(PostCopyXYa, "success", "")

\* a Task of the assistant followed by a Task of the caller: the assistant's
\* postCopy was extracted
C32_Witness ==
    /\ xpc = "returned"
    /\ Len(messages) = 2
    /\ messages[2] = UserMessage(JStr(stringify(TaskHello)))
    /\ output = Message(stringify(Task(PostCopyXYa)))
    /\ agentResponse = AgentResponse(PostCopyXYa, "success", "")

(***************************************************************************)
(* Properties of the document tools.                                       *)
(***************************************************************************)
\* the step is a call of the tool
ToolCalled(tool) == nCalls' = nCalls + 1 /\ toolCall'.tool = tool

NonEmptyString(v) == v.t = "str" /\ v.s # <<>>

\* the positions of the brand documents the store holds for the requested id
BrandMatches ==
    {k \in 1..Len(brands) : JGet(brands[k], Key("id")) = JGet(toolCall.args, Key("brandId"))}

\* C33: when the store answers, getBrand returns {brand: R} with R the first
\* record the store holds for the requested brandId, and {brand: null}
\* without throwing when the store holds no record for it.
C33_GetBrandFirstRecordOrNull ==
    (toolCall.tool = "getBrand" /\ toolCall.store = "ok" /\ toolCall.args.t = "obj")
    => /\ ~toolOut.threw
       /\ IF BrandMatches = {}
          THEN toolOut.value = JObj(<<Field("brand", JNull)>>)
          ELSE toolOut.value =
                  JObj(<<Field("brand",
                               brands[CHOOSE k \in BrandMatches : \A j \in BrandMatches : k <= j])>>)

\* the store returned nothing for the id asked for, and getBrand answered
\* {brand: null}
C33_Witness ==
    /\ toolCall = [tool |-> "getBrand", args |-> JObj(<<Field("brandId", JStr(<<"b9">>))>>),
                   store |-> "ok"]
    /\ Len(brands) = 3
    /\ toolOut = ToolOk(JObj(<<Field("brand", JNull)>>))

\* the arguments createPost asks for: a non-empty string brandId and a
\* postCopy with non-empty string content and comment and a non-empty list
\* of non-empty string hashtags
WellFormedPostCopy(p) ==
    /\ p.t = "obj"
    /\ NonEmptyString(JGet(p, Key("content")))
    /\ NonEmptyString(JGet(p, Key("comment")))
    /\ JGet(p, Key("hashtags")).t = "arr"
    /\ Len(JGet(p, Key("hashtags")).a) >= 1
    /\ \A k \in 1..Len(JGet(p, Key("hashtags")).a) : NonEmptyString(JGet(p, Key("hashtags")).a[k])

WellFormedCreate(args) ==
    /\ args.t = "obj"
    /\ NonEmptyString(JGet(args, Key("brandId")))
    /\ WellFormedPostCopy(JGet(args, Key("postCopy")))

\* C39: a createPost call changes the post container only when its
\* arguments are well formed, and then by adding one draft document with
\* that brandId and postCopy; when any check fails it throws and the
\* container is as before.
C39_CreatePostValidatesBeforeWriting ==
    [][ToolCalled("createPost") =>
          /\ posts' # posts =>
                /\ WellFormedCreate(toolCall'.args)
                /\ ~toolOut'.threw
                /\ Len(posts') = Len(posts) + 1
                /\ SubSeq(posts', 1, Len(posts)) = posts
                /\ JGet(posts'[Len(posts')], Key("brandId")) = JGet(toolCall'.args, Key("brandId"))
                /\ JGet(posts'[Len(posts')], Key("postCopy")) = JGet(toolCall'.args, Key("postCopy"))
                /\ JGet(posts'[Len(posts')], Key("status")) = JStr(<<"draft">>)
          /\ ~WellFormedCreate(toolCall'.args) => (toolOut'.threw /\ posts' = posts)
          /\ (WellFormedCreate(toolCall'.args) /\ toolCall'.store = "ok") => posts' # posts]_vars

\* a postCopy whose only hashtag is the empty string was refused and the
\* container kept its one document
C39_Witness ==
    /\ toolCall.tool = "createPost"
    /\ JGet(JGet(toolCall.args, Key("postCopy")), Key("hashtags")) = JArr(<<JStr(<<>>)>>)
    /\ toolCall.store = "ok"
    /\ toolOut.threw
    /\ posts = <<StoredPost>>

\* the arguments updatePost asks for
WellFormedUpdate(args) ==
    /\ args.t = "obj"
    /\ NonEmptyString(JGet(args, Key("postId")))
    /\ JGet(args, Key("updateFields")).t \in {"obj", "arr"}
    /\ JTruthy(JGet(JGet(args, Key("updateFields")), Key("postCopy")))
          => WellFormedPostCopy(JGet(JGet(args, Key("updateFields")), Key("postCopy")))

\* the fields of document d that u does not name
FieldsNotNamed(d, u) ==
    {d.f[k][1] : k \in 1..Len(d.f)} \ {u.f[k][1] : k \in 1..Len(u.f)}

\* C40: after a successful updatePost(postId, updateFields) every field of
\* the stored document that updateFields does not name keeps its value, the
\* other documents are untouched; and when postId, updateFields or a supplied
\* postCopy is invalid, updatePost throws and the container is as before.
C40_UpdatePostKeepsOtherFields ==
    [][ToolCalled("updatePost") =>
          /\ ~toolOut'.threw =>
                /\ Len(posts') = Len(posts)
                /\ \A k \in 1..Len(posts) :
                      \A name \in FieldsNotNamed(posts[k], JGet(toolCall'.args, Key("updateFields"))) :
                          JGet(posts'[k], name) = JGet(posts[k], name)
          /\ ~WellFormedUpdate(toolCall'.args) => (toolOut'.threw /\ posts' = posts)]_vars

(***************************************************************************)
(* Properties of the TraceManager.                                         *)
(***************************************************************************)
IsPrefix(a, b) == Len(a) <= Len(b) /\ SubSeq(b, 1, Len(a)) = a

\* this step is a call of operation op
IsCall(op) == Len(traceCalls') = Len(traceCalls) + 1 /\ traceCalls'[Len(traceCalls')] = op

\* C14: for any sequence of fail, succeed and end calls on one TraceManager
\* the end time, once set by the first finalizing call, is never changed by
\* a later one.
C14_EndTimeSetOnce ==
    [][trace.endedAt # Unset => trace'.endedAt = trace.endedAt]_vars

\* C15: for any sequence of succeed, fail and end calls on one TraceManager
\* the event sequence holds at most one end event, and the status, once
\* succeeded or failed, never changes.
C15_FinalizedOnce ==
    [][/\ Cardinality(EventsOfType(trace'.events, "end")) <= 1
       /\ trace.status \in {"succeeded", "failed"} => trace'.status = trace.status]_vars

\* C16: every TraceManager operation leaves the previous event sequence as a
\* prefix of the new one.
C16_EventsAppendOnly ==
    [][IsPrefix(trace.events, trace'.events)]_vars

\* C16 witness: addEvent, fail and buildAgentRun were called in turn and the
\* sequence grew from the constructor's start event to four events
C16_Witness ==
    /\ traceCalls = <<"addEvent", "fail", "buildAgentRun">>
    /\ Len(trace.events) = 4
    /\ trace.events[1].eventType = "start"
    /\ trace.events[4].eventType = "end"

\* C17: a call of fail sets the status to failed and appends exactly two
\* events, an error event immediately followed by an end event whose
\* metadata status is failed.
C17_FailAppendsErrorThenEnd ==
    [][IsCall("fail") =>
          LET n == Len(trace.events)
          IN  /\ trace'.status = "failed"
              /\ Len(trace'.events) = n + 2
              /\ SubSeq(trace'.events, 1, n) = trace.events
              /\ trace'.events[n + 1].eventType = "error"
              /\ trace'.events[n + 2].eventType = "end"
              /\ trace'.events[n + 2].status = "failed"]_vars

\* C17 witness: fail was called on a trace that succeed had finalized before
C17_Witness ==
    /\ traceCalls = <<"succeed", "fail">>
    /\ trace.status = "failed"
    /\ trace.events[Len(trace.events)].status = "failed"

====
